---- MODULE Spec2Model ----
(***************************************************************************)
(* LEAF DSS: the cached dataset loaders (data_utils.py), the feasibility   *)
(* engine (feasibility.py) and the scoring request handlers (app.py).      *)
(*                                                                         *)
(* Values.  A pandas cell, a criterion bound and a score are all written   *)
(* as one record shape [k, n, d, s]:                                       *)
(*   k = "num"  the number n/d (d > 0); floats are kept as exact fractions *)
(*   k = "nan"  NaN / missing                                              *)
(*   k = "none" Python None                                                *)
(*   k = "inf"  +infinity (n = 1) or -infinity (n = -1)                    *)
(*   k = "str"  a string: d = 1 when it is the decimal text of n,          *)
(*              d = 0 when it does not parse as a number (text s)          *)
(***************************************************************************)
EXTENDS Integers, Sequences, FiniteSets, TLC

VARIABLES
    loaded,    \* the unit table as load_shapefile built it (never assigned again)
    heap,      \* object id -> unit table (the cached table and the copies)
    pc,        \* per request thread: position inside the scoring call
    req,       \* per request thread: the request being served
    ref,       \* per request thread: the object its local name gdf refers to
    result,    \* per request thread: what the scoring call returned
    clsIn,     \* last value handed to classify_feasibility
    clsOut,    \* what classify_feasibility returned for it
    disk,      \* which backing files (and columns in them) the data directory has
    cache,     \* per loader: the lru_cache slot, NoValue while empty
    runs,      \* per loader: how many times its file read / join was executed
    returned,  \* per loader: the value its first completed call returned
    stack,     \* per request thread: the loader calls in progress, innermost last
    files,     \* the contents of the data files load_gp_shapefile or
               \* get_intervention_config reads
    built      \* what that function made of them

scoring == <<loaded, heap, pc, req, ref, result>>
loading == <<disk, cache, runs, returned, stack>>
joining == <<files, built>>
vars == <<loaded, heap, pc, req, ref, result, clsIn, clsOut,
          disk, cache, runs, returned, stack, files, built>>

----------------------------------------------------------------------------
(* Bounds of the model *)

MaxUnits == 2
MaxCriteria == 2
NumThreads == 2
MaxGps == 2

----------------------------------------------------------------------------
(* Values *)

Num(x) == [k |-> "num", n |-> x, d |-> 1, s |-> ""]
NaN == [k |-> "nan", n |-> 0, d |-> 1, s |-> ""]
None == [k |-> "none", n |-> 0, d |-> 1, s |-> ""]
PosInf == [k |-> "inf", n |-> 1, d |-> 1, s |-> ""]
NegInf == [k |-> "inf", n |-> -1, d |-> 1, s |-> ""]
Text(t) == [k |-> "str", n |-> 0, d |-> 0, s |-> t]
NumStr(x) == [k |-> "str", n |-> x, d |-> 1, s |-> "#"]

RECURSIVE Gcd(_, _)
Gcd(a, b) == IF b = 0 THEN a ELSE Gcd(b, a % b)

Abs(x) == IF x < 0 THEN -x ELSE x

\* the float a/b, kept exact and in lowest terms (b > 0)
Frac(a, b) ==
    LET g == Gcd(Abs(a), b)
    IN  [k |-> "num", n |-> a \div g, d |-> b \div g, s |-> ""]

\* pd.isna on a scalar
IsNa(v) == v.k \in {"nan", "none"}

\* a <= b on numbers and infinities
Leq(a, b) ==
    CASE a.k = "inf" /\ b.k = "inf" -> a.n <= b.n
      [] a.k = "inf" -> a.n < 0
      [] b.k = "inf" -> b.n > 0
      [] OTHER -> a.n * b.d <= b.n * a.d

\* pd.to_numeric(errors='coerce') on one cell
ToNumeric(v) ==
    CASE v.k = "num" -> v
      [] v.k = "str" /\ v.d = 1 -> Num(v.n)
      [] OTHER -> NaN

----------------------------------------------------------------------------
(* Unit tables: [cols |-> set of column names, rows |-> sequence of rows], *)
(* a row being a function from the table's columns to cells.  The geometry *)
(* column is carried by the row's position.                                *)

\* a criterion without a usable 'column'/'field' key
NoColumn == ""

\* gdf[col] = vals (a new table value; the caller decides which object gets it)
SetCol(tab, col, vals) ==
    [cols |-> tab.cols \cup {col},
     rows |-> [i \in 1..Len(tab.rows) |->
                 [c \in tab.cols \cup {col} |->
                     IF c = col THEN vals[i] ELSE tab.rows[i][c]]]]

\* calculate_criteria_match with the bounds taken as exclusive
calculate_criteria_match_Strict(gdf, column, min_val, max_val) ==
    IF column \notin gdf.cols
    THEN [i \in 1..Len(gdf.rows) |-> NaN]
    ELSE [i \in 1..Len(gdf.rows) |->
            LET v == ToNumeric(gdf.rows[i][column])
            IN  IF v.k = "num"
                THEN IF ~Leq(v, min_val) /\ ~Leq(max_val, v) THEN Num(1) ELSE Num(0)
                ELSE NaN]

\* calculate_criteria_match with an absent column counted as "no match"
calculate_criteria_match_AbsentIsZero(gdf, column, min_val, max_val) ==
    IF column \notin gdf.cols
    THEN [i \in 1..Len(gdf.rows) |-> Num(0)]
    ELSE [i \in 1..Len(gdf.rows) |->
            LET v == ToNumeric(gdf.rows[i][column])
            IN  IF v.k = "num"
                THEN IF Leq(min_val, v) /\ Leq(v, max_val) THEN Num(1) ELSE Num(0)
                ELSE NaN]

\* the 0.0 / 1.0 / NaN match series of one criterion
calculate_criteria_match(gdf, column, min_val, max_val) ==
    IF column \notin gdf.cols
    THEN [i \in 1..Len(gdf.rows) |-> NaN]
    ELSE [i \in 1..Len(gdf.rows) |->
            LET v == ToNumeric(gdf.rows[i][column])
            IN  IF v.k = "num"
                THEN IF Leq(min_val, v) /\ Leq(v, max_val) THEN Num(1) ELSE Num(0)
                ELSE NaN]

\* A criterion is the dict of the request: a record that has some of the keys
\* column, field, min_val, max_val, range_min, range_max, weight.
\* c.get(key, default)
Get(c, key, default) == IF key \in DOMAIN c THEN c[key] ELSE default

\* c.get('column') or c.get('field'), NoColumn when neither names a column
column_of(c) ==
    IF Get(c, "column", NoColumn) # NoColumn THEN c.column ELSE Get(c, "field", NoColumn)

\* the upper bound with a null bound read as 0
max_val_of_NullIsZero(c) ==
    LET max_val == Get(c, "max_val", Get(c, "range_max", PosInf))
    IN  IF IsNa(max_val) THEN Num(0) ELSE max_val

\* lines 52-53 and 60-63: the bounds, a null one replaced by -inf / +inf
min_val_of(c) ==
    LET min_val == Get(c, "min_val", Get(c, "range_min", NegInf))
    IN  IF IsNa(min_val) THEN NegInf ELSE min_val
max_val_of(c) ==
    LET max_val == Get(c, "max_val", Get(c, "range_max", PosInf))
    IN  IF IsNa(max_val) THEN PosInf ELSE max_val

\* c.get('weight', 1)
weight_of(c) == Get(c, "weight", 1)

\* the loop with every criterion counted once, whatever its weight
RECURSIVE FeasibilityLoop_Unweighted(_, _, _, _, _)
FeasibilityLoop_Unweighted(gdf, criteria, i, wm, wa) ==
    IF i > Len(criteria) THEN <<wm, wa>>
    ELSE
        LET c == criteria[i]
        IN  IF column_of(c) = NoColumn
            THEN FeasibilityLoop_Unweighted(gdf, criteria, i + 1, wm, wa)
            ELSE
                LET match == calculate_criteria_match(gdf, column_of(c),
                                                      min_val_of(c), max_val_of(c))
                    wm2 == [r \in 1..Len(gdf.rows) |->
                              IF match[r].k = "num" THEN wm[r] + match[r].n ELSE wm[r]]
                    wa2 == [r \in 1..Len(gdf.rows) |->
                              IF match[r].k = "num" THEN wa[r] + 1 ELSE wa[r]]
                IN  FeasibilityLoop_Unweighted(gdf, criteria, i + 1, wm2, wa2)

\* the loop over the criteria: weighted_matches and weighted_applicable
RECURSIVE FeasibilityLoop(_, _, _, _, _)
FeasibilityLoop(gdf, criteria, i, wm, wa) ==
    IF i > Len(criteria) THEN <<wm, wa>>
    ELSE
        LET c == criteria[i]
        IN  IF column_of(c) = NoColumn
            THEN FeasibilityLoop(gdf, criteria, i + 1, wm, wa)
            ELSE
                LET match == calculate_criteria_match(gdf, column_of(c),
                                                      min_val_of(c), max_val_of(c))
                    wm2 == [r \in 1..Len(gdf.rows) |->
                              IF match[r].k = "num"
                              THEN wm[r] + match[r].n * weight_of(c) ELSE wm[r]]
                    wa2 == [r \in 1..Len(gdf.rows) |->
                              IF match[r].k = "num"
                              THEN wa[r] + weight_of(c) ELSE wa[r]]
                IN  FeasibilityLoop(gdf, criteria, i + 1, wm2, wa2)

\* calculate_feasibility without the early return for an empty criteria list,
\* the empty sum scored as 0
calculate_feasibility_EmptyIsZero(gdf, criteria, logic) ==
    LET zero == [r \in 1..Len(gdf.rows) |-> 0]
        sums == FeasibilityLoop(gdf, criteria, 1, zero, zero)
    IN  [r \in 1..Len(gdf.rows) |->
            IF sums[2][r] > 0 THEN Frac(sums[1][r] * 100, sums[2][r])
            ELSE IF criteria = <<>> THEN Num(0) ELSE NaN]

\* calculate_feasibility with a zero denominator scored 0 instead of left undefined
calculate_feasibility_ZeroWhenNone(gdf, criteria, logic) ==
    IF criteria = <<>>
    THEN [r \in 1..Len(gdf.rows) |-> NaN]
    ELSE
        LET zero == [r \in 1..Len(gdf.rows) |-> 0]
            sums == FeasibilityLoop(gdf, criteria, 1, zero, zero)
        IN  [r \in 1..Len(gdf.rows) |->
                IF sums[2][r] > 0 THEN Frac(sums[1][r] * 100, sums[2][r]) ELSE Num(0)]

\* calculate_feasibility with "OR" read as "any applicable criterion matched"
calculate_feasibility_OrAny(gdf, criteria, logic) ==
    IF criteria = <<>>
    THEN [r \in 1..Len(gdf.rows) |-> NaN]
    ELSE
        LET zero == [r \in 1..Len(gdf.rows) |-> 0]
            sums == FeasibilityLoop(gdf, criteria, 1, zero, zero)
        IN  [r \in 1..Len(gdf.rows) |->
                IF sums[2][r] > 0
                THEN IF logic = "OR"
                     THEN (IF sums[1][r] > 0 THEN Num(100) ELSE Num(0))
                     ELSE Frac(sums[1][r] * 100, sums[2][r])
                ELSE NaN]

\* the feasibility series (one score or NaN per row); logic is accepted and unused
calculate_feasibility(gdf, criteria, logic) ==
    IF criteria = <<>>
    THEN [r \in 1..Len(gdf.rows) |-> NaN]
    ELSE
        LET zero == [r \in 1..Len(gdf.rows) |-> 0]
            sums == FeasibilityLoop(gdf, criteria, 1, zero, zero)
            weighted_matches == sums[1]
            weighted_applicable == sums[2]
        IN  [r \in 1..Len(gdf.rows) |->
                IF weighted_applicable[r] > 0
                THEN Frac(weighted_matches[r] * 100, weighted_applicable[r])
                ELSE NaN]

\* classify_feasibility with the thresholds taken as exclusive lower bounds
classify_feasibility_Exclusive(value) ==
    IF IsNa(value) THEN <<"no_data", "No Data">>
    ELSE IF value.k = "str" /\ value.d = 0 THEN <<"no_data", "No Data">>
    ELSE
        LET v == IF value.k = "str" THEN Num(value.n) ELSE value
        IN  IF ~Leq(v, Num(100)) THEN <<"very_high", "100%">>
            ELSE IF ~Leq(v, Num(75)) THEN <<"high", "75-100%">>
            ELSE IF ~Leq(v, Num(50)) THEN <<"moderate_high", "50-75%">>
            ELSE IF ~Leq(v, Num(25)) THEN <<"moderate", "25-50%">>
            ELSE IF ~Leq(v, Num(1)) THEN <<"low", "1-25%">>
            ELSE <<"very_low", "0%">>

\* (category_key, display_label) of one value
classify_feasibility(value) ==
    IF IsNa(value) THEN <<"no_data", "No Data">>
    ELSE IF value.k = "str" /\ value.d = 0 THEN <<"no_data", "No Data">>
    ELSE
        LET v == IF value.k = "str" THEN Num(value.n) ELSE value
        IN  IF Leq(Num(100), v) THEN <<"very_high", "100%">>
            ELSE IF Leq(Num(75), v) THEN <<"high", "75-100%">>
            ELSE IF Leq(Num(50), v) THEN <<"moderate_high", "50-75%">>
            ELSE IF Leq(Num(25), v) THEN <<"moderate", "25-50%">>
            ELSE IF Leq(Num(1), v) THEN <<"low", "1-25%">>
            ELSE <<"very_low", "0%">>

FEASIBILITY_COLORS ==
    [very_high |-> "#1b5e20", high |-> "#81c784", moderate_high |-> "#c5e1a5",
     moderate |-> "#ffd700", low |-> "#ff8c00", very_low |-> "#ff0000",
     no_data |-> "#E0E0E0"]

Threshold(lo, hi, key, label) == [min |-> lo, max |-> hi, key |-> key, label |-> label]

\* the threshold table with whole numbers as upper ends
FEASIBILITY_THRESHOLDS_WholeNumbers ==
    <<Threshold(Num(100), Num(100), "very_high", "100%"),
      Threshold(Num(75), Num(99), "high", "75-100%"),
      Threshold(Num(50), Num(74), "moderate_high", "50-75%"),
      Threshold(Num(25), Num(49), "moderate", "25-50%"),
      Threshold(Num(1), Num(24), "low", "1-25%"),
      Threshold(Num(0), Num(0), "very_low", "0%")>>

\* (min, max, class_key, label)
FEASIBILITY_THRESHOLDS ==
    <<Threshold(Num(100), Num(100), "very_high", "100%"),
      Threshold(Num(75), Frac(9999, 100), "high", "75-100%"),
      Threshold(Num(50), Frac(7499, 100), "moderate_high", "50-75%"),
      Threshold(Num(25), Frac(4999, 100), "moderate", "25-50%"),
      Threshold(Num(1), Frac(2499, 100), "low", "1-25%"),
      Threshold(Num(0), Frac(99, 100), "very_low", "0%")>>

get_feasibility_color(value) ==
    LET category == classify_feasibility(value)[1]
    IN  IF category \in DOMAIN FEASIBILITY_COLORS
        THEN FEASIBILITY_COLORS[category] ELSE FEASIBILITY_COLORS["no_data"]

Column(tab, col) == [i \in 1..Len(tab.rows) |-> tab.rows[i][col]]

\* the statements of add_feasibility_to_gdf after the copy, on a table value
WithFeasibility(tab, criteria, logic) ==
    SetCol(tab, "feasibility", calculate_feasibility(tab, criteria, logic))

WithClassLabel(tab) ==
    LET f == Column(tab, "feasibility")
        classifications == [i \in 1..Len(f) |-> classify_feasibility(f[i])]
        t1 == SetCol(tab, "feasibility_class",
                     [i \in 1..Len(f) |-> Text(classifications[i][1])])
    IN  SetCol(t1, "feasibility_label",
               [i \in 1..Len(f) |-> Text(classifications[i][2])])

WithColor(tab) ==
    LET f == Column(tab, "feasibility")
    IN  SetCol(tab, "feasibility_color",
               [i \in 1..Len(f) |-> Text(get_feasibility_color(f[i]))])

\* gdf.copy(): a new table with the same columns, rows and values
CopyOf(tab) == [cols |-> tab.cols, rows |-> tab.rows]

add_feasibility_to_gdf(gdf, criteria, logic) ==
    WithColor(WithClassLabel(WithFeasibility(CopyOf(gdf), criteria, logic)))

----------------------------------------------------------------------------
(* Statistics and the GeoJSON result *)

all_labels == {"100%", "75-100%", "50-75%", "25-50%", "1-25%", "0%", "No Data"}

EmptyDict == [x \in {} |-> 0]

\* get_feasibility_distribution without the loop that adds the absent labels
get_feasibility_distribution_NoFill(gdf) ==
    IF "feasibility_label" \notin gdf.cols THEN EmptyDict
    ELSE
        LET labels == Column(gdf, "feasibility_label")
            seen == {labels[i].s : i \in 1..Len(labels)}
        IN  [l \in seen |-> Cardinality({i \in 1..Len(labels) : labels[i].s = l})]

\* value_counts().to_dict() of feasibility_label, then the missing labels as 0
get_feasibility_distribution(gdf) ==
    IF "feasibility_label" \notin gdf.cols THEN EmptyDict
    ELSE
        LET labels == Column(gdf, "feasibility_label")
            seen == {labels[i].s : i \in 1..Len(labels)}
        IN  [l \in seen \cup all_labels |->
                Cardinality({i \in 1..Len(labels) : labels[i].s = l})]

FracAdd(a, b) == Frac(a.n * b.d + b.n * a.d, a.d * b.d)

RECURSIVE FracSum(_, _)
FracSum(vals, i) == IF i > Len(vals) THEN Num(0) ELSE FracAdd(vals[i], FracSum(vals, i + 1))

\* the j-th smallest of a non-empty sequence of numbers
Kth(vals, j) ==
    LET i == CHOOSE x \in 1..Len(vals) :
                /\ Cardinality({y \in 1..Len(vals) : ~Leq(vals[x], vals[y])}) < j
                /\ Cardinality({y \in 1..Len(vals) : Leq(vals[y], vals[x])}) >= j
    IN  vals[i]

Median(vals) ==
    LET m == Len(vals)
    IN  IF m % 2 = 1 THEN Kth(vals, (m + 1) \div 2)
        ELSE LET two == FracAdd(Kth(vals, m \div 2), Kth(vals, m \div 2 + 1))
             IN  Frac(two.n, two.d * 2)

get_feasibility_stats(gdf) ==
    IF "feasibility" \notin gdf.cols THEN EmptyDict
    ELSE
        LET valid == SelectSeq(Column(gdf, "feasibility"), LAMBDA v : ~IsNa(v))
            m == Len(valid)
            sum == FracSum(valid, 1)
        IN  [total_blocks |-> Len(gdf.rows),
             blocks_with_data |-> m,
             blocks_no_data |-> Len(gdf.rows) - m,
             mean |-> IF m > 0 THEN Frac(sum.n, sum.d * m) ELSE Num(0),
             median |-> IF m > 0 THEN Median(valid) ELSE Num(0),
             min |-> IF m > 0 THEN Kth(valid, 1) ELSE Num(0),
             max |-> IF m > 0 THEN Kth(valid, m) ELSE Num(100),
             high_feasibility |->
                 Cardinality({i \in 1..m : Leq(Num(75), valid[i])}),
             low_feasibility |->
                 Cardinality({i \in 1..m : ~Leq(Num(25), valid[i])})]

\* Python truthiness of the district argument
Truthy(v) ==
    CASE v.k = "none" -> FALSE
      [] v.k = "str" -> ~(v.d = 0 /\ v.s = "")
      [] v.k = "num" -> v.n # 0
      [] OTHER -> TRUE

\* Series == scalar, element by element (NaN equals nothing)
PyEq(a, b) == a.k = b.k /\ a.k # "nan" /\ a = b

\* Series.astype(str) of one cell: an integer column prints "134", a float
\* column (one that holds a NaN) prints "134.0"
AsStr(v, isFloat) ==
    CASE v.k = "num" /\ ~isFloat /\ v.d = 1 -> NumStr(v.n)
      [] v.k = "num" -> [k |-> "str", n |-> v.n, d |-> 1, s |-> "#.0"]
      [] v.k = "nan" -> Text("nan")
      [] v.k = "none" -> Text("None")
      [] OTHER -> v

IsFloatColumn(tab, col) ==
    \E i \in 1..Len(tab.rows) :
        tab.rows[i][col].k = "nan" \/ (tab.rows[i][col].k = "num" /\ tab.rows[i][col].d # 1)

\* str(district)
PyStr(v) == AsStr(v, FALSE)

FilterRows(tab, keep(_)) == [cols |-> tab.cols, rows |-> SelectSeq(tab.rows, keep)]

ByName(tab, district) ==
    FilterRows(tab, LAMBDA r : PyEq(r["Dist_Name"], district))

ById(tab, district) ==
    LET fl == IsFloatColumn(tab, "DISTRICT_I")
    IN  FilterRows(tab, LAMBDA r : AsStr(r["DISTRICT_I"], fl) = PyStr(district))

\* the rows the statistics are computed over; "KeyError" when the district
\* is given and the table has neither Dist_Name nor DISTRICT_I
ScopeRaises(tab, district) ==
    Truthy(district) /\ "Dist_Name" \notin tab.cols /\ "DISTRICT_I" \notin tab.cols

\* the scoping without the second look by DISTRICT_I when no name matched
gdf_for_stats_NameOnly(gdf_with_feas, district) ==
    IF Truthy(district)
    THEN IF "Dist_Name" \in gdf_with_feas.cols
         THEN ByName(gdf_with_feas, district)
         ELSE ById(gdf_with_feas, district)
    ELSE gdf_with_feas

gdf_for_stats(gdf_with_feas, district) ==
    IF Truthy(district)
    THEN
        LET first == IF "Dist_Name" \in gdf_with_feas.cols
                     THEN ByName(gdf_with_feas, district)
                     ELSE ById(gdf_with_feas, district)
        IN  IF Len(first.rows) = 0 /\ "DISTRICT_I" \in gdf_with_feas.cols
            THEN ById(gdf_with_feas, district)
            ELSE first
    ELSE gdf_with_feas

\* json.loads(gdf.to_json()) and the NaN clean-up: one feature per row, NaN as null
ToFeatures(tab) ==
    [i \in 1..Len(tab.rows) |->
        [c \in tab.cols |-> IF tab.rows[i][c].k = "nan" THEN None ELSE tab.rows[i][c]]]

NoResult == [status |-> "none", geojson |-> <<>>, statistics |-> EmptyDict]

\* the result with the map made from the scoped rows instead of all rows
ResultOf_ScopedMap(gdf_with_feas, district) ==
    IF ScopeRaises(gdf_with_feas, district)
    THEN [status |-> "KeyError", geojson |-> <<>>, statistics |-> EmptyDict]
    ELSE
        LET for_stats == gdf_for_stats(gdf_with_feas, district)
            distribution == get_feasibility_distribution(for_stats)
            stats == get_feasibility_stats(for_stats)
        IN  [status |-> "ok",
             geojson |-> ToFeatures(for_stats),
             statistics |-> stats @@ ("distribution" :> distribution)]

\* lines 192-226 of calculate_and_get_geojson, on the table with the derived columns
ResultOf(gdf_with_feas, district) ==
    IF ScopeRaises(gdf_with_feas, district)
    THEN [status |-> "KeyError", geojson |-> <<>>, statistics |-> EmptyDict]
    ELSE
        LET for_stats == gdf_for_stats(gdf_with_feas, district)
            distribution == get_feasibility_distribution(for_stats)
            stats == get_feasibility_stats(for_stats)
        IN  [status |-> "ok",
             geojson |-> ToFeatures(gdf_with_feas),
             statistics |-> stats @@ ("distribution" :> distribution)]

\* what one call returns when nothing else runs
calculate_and_get_geojson(gdf, criteria, logic, district) ==
    ResultOf(add_feasibility_to_gdf(gdf, criteria, logic), district)

----------------------------------------------------------------------------
(* Inputs *)

Columns == {"AD", "BF", "Dist_Name", "DISTRICT_I"}

\* row i of a block table: two indicator attributes, the district id and name
UnitRow(ad, bf, i) ==
    [c \in Columns |->
        CASE c = "AD" -> ad
          [] c = "BF" -> bf
          [] c = "Dist_Name" -> IF i % 2 = 1 THEN Text("A") ELSE Text("B")
          [] OTHER -> Num(i % 2)]

ADValues == {Text("n/a"), Num(20)}
BFValues == {NaN, Num(60)}

RowsOfLen(m, ads, bfs) ==
    {[i \in 1..m |-> UnitRow(a[i], b[i], i)] : a \in [1..m -> ads], b \in [1..m -> bfs]}

TablesOver(ads, bfs) ==
    {[cols |-> Columns, rows |-> r] :
        r \in UNION {RowsOfLen(m, ads, bfs) : m \in 0..MaxUnits}}

Tables == TablesOver(ADValues, BFValues)

Criterion(col, lo, hi, w) == [column |-> col, min_val |-> lo, max_val |-> hi, weight |-> w]

Criteria ==
    {Criterion("AD", Num(20), Num(40), 1),
     Criterion("AD", Num(20), Num(40), 0),
     Criterion("AD", Num(40), Num(60), 1),
     Criterion("BF", Num(40), Num(60), 3),
     Criterion("BF", Num(20), Num(40), 3),
     Criterion("ZZ", Num(20), Num(40), 1),
     Criterion("AD", None, None, 1),
     Criterion(NoColumn, Num(20), Num(40), 1)}

ListsOver(cs) == UNION {[1..m -> cs] : m \in 0..MaxCriteria}

CriteriaLists == ListsOver(Criteria)

Districts == {None, Text("A"), Text("X")}

Request(criteria, logic, district) ==
    [criteria |-> criteria, logic |-> logic, district |-> district]

NoRequest == Request(<<>>, "", None)

----------------------------------------------------------------------------
(* The cached loaders of data_utils.py.  Each is a zero-argument function  *)
(* under functools.lru_cache(maxsize=1): a call looks the slot up; on a    *)
(* miss it runs the body with no lock held, and when the body returns it   *)
(* fills the slot unless another call has filled it meanwhile, and returns *)
(* its own result.  A body that raises fills nothing.                      *)

Loaders ==
    {"load_district_mapping", "load_shapefile", "load_metadata",
     "load_gp_block_mapping", "load_gp_data", "load_gp_shapefile"}

\* the loaders the request handlers and the get_* helpers call themselves
EntryLoaders == {"load_shapefile", "load_metadata", "load_gp_data", "load_gp_shapefile"}

\* the file each loader checks with exists() and reads
BackingFile ==
    [load_district_mapping |-> "Block_assam.shp",
     load_shapefile |-> "4DSS_VAR_2.0.shp",
     load_metadata |-> "DSS_input2.csv",
     load_gp_block_mapping |-> "Block_GPs.xlsx",
     load_gp_data |-> "Tinsukia_GP_data.xlsx",
     load_gp_shapefile |-> "grampanchayat.shp"]

\* what the data directory may hold; the last entry says whether the GP
\* geometry file itself carries a GP_NAME column
DiskFacts ==
    {BackingFile[l] : l \in Loaders} \cup {"Vill_Gp_join.csv", "grampanchayat.shp:GP_NAME"}

\* everything in place, exactly one thing missing, or both geometry files missing
DiskStates ==
    {[f \in DiskFacts |-> TRUE]}
    \cup {[f \in DiskFacts |-> f # g] : g \in DiskFacts}
    \cup {[f \in DiskFacts |-> f \notin {"4DSS_VAR_2.0.shp", "grampanchayat.shp"}]}

\* values a loader returns: the object built by the `by`-th run of its body
\* ("data"), an empty dict ("empty") or None ("none")
NoValue == [kind |-> "no value", by |-> 0, hasCode |-> FALSE]
Data(n, code) == [kind |-> "data", by |-> n, hasCode |-> code]
EmptyMapping == [kind |-> "empty", by |-> 0, hasCode |-> FALSE]
NoneValue == [kind |-> "none", by |-> 0, hasCode |-> FALSE]

\* a call: the loader, where its body stands ("done" once it has returned to
\* its caller outside the loaders, or the exception that left it), the value
\* it returns, what the nested load_gp_data call gave it, the helper of
\* data_utils.py that made the call ("" for a call by a request handler) and
\* what that helper answered
Frame(l, at, val) ==
    [fn |-> l, at |-> at, val |-> val, got |-> NoValue, via |-> "", answer |-> ""]

\* the helpers that answer for the GP table: get_gp_geojson, get_gp_by_id,
\* get_gp_locations
GpHelpers == {"get_gp_geojson", "get_gp_by_id", "get_gp_locations"}

\* what each answers with when load_gp_shapefile gave None (lines 394-395,
\* 415-416, 427-428), and else something made from the table
WithoutGpTable ==
    [get_gp_geojson |-> "FeatureCollection without features",
     get_gp_by_id |-> "None",
     get_gp_locations |-> "[]"]

\* get_gp_by_id without the "if gdf is None" guard: None['GP_CODE'] raises
HelperAnswer_Unguarded(h, gdf) ==
    IF gdf = NoneValue /\ h = "get_gp_by_id" THEN "TypeError"
    ELSE IF gdf = NoneValue THEN WithoutGpTable[h]
    ELSE "from the table"

HelperAnswer(h, gdf) ==
    IF gdf = NoneValue THEN WithoutGpTable[h] ELSE "from the table"

\* the call has returned v to its caller outside the loaders
Done(l, v, via) ==
    [Frame(l, "done", v) EXCEPT !.via = via,
                                !.answer = IF via = "" THEN "" ELSE HelperAnswer(via, v)]

\* load_gp_shapefile raising like load_shapefile does
RaisesWhenMissing_GpToo == {"load_shapefile", "load_metadata", "load_gp_shapefile"}

\* load_metadata returning None like the GP loaders do
RaisesWhenMissing_ShapefileOnly == {"load_shapefile"}

\* the loaders that raise FileNotFoundError when their file is missing
RaisesWhenMissing == {"load_shapefile", "load_metadata"}

\* what a loader returns in place of data when its file is missing
WhenMissing(l) ==
    IF l \in {"load_district_mapping", "load_gp_block_mapping"}
    THEN EmptyMapping ELSE NoneValue

\* the slot naively overwritten by every call that ran the body
LruStore_Overwrite(slot, val) == val

\* the wrapper after the body returned: the slot is filled only if still empty
LruStore(slot, val) == IF slot # NoValue THEN slot ELSE val

Top(t) == stack[t][Len(stack[t])]
Running(t) == stack[t] # <<>> /\ pc[t] = "idle"

\* the nested loader call a body makes once it stands at `at`, "" for none
NestedCall(l, at) ==
    CASE l = "load_shapefile" /\ at = "built" -> "load_district_mapping"
      [] l = "load_gp_shapefile" /\ at = "built" -> "load_gp_data"
      [] l = "load_gp_shapefile" /\ at = "joined" -> "load_gp_block_mapping"
      [] OTHER -> ""

\* where the body stands when that nested call has returned
AfterNested(l, at) ==
    IF l = "load_gp_shapefile" /\ at = "built" THEN "merge" ELSE "finish"

\* the frame keeps what load_gp_data returned (gp_data, line 369)
Receive(f, callee, v) == IF callee = "load_gp_data" THEN [f EXCEPT !.got = v] ELSE f

\* thread t's stack when its innermost body, now f, goes on past f.at: a
\* nested call is looked up in its slot (a hit hands the value over at once,
\* a miss enters the nested body)
Advance(t, f) ==
    LET m == Len(stack[t])
        n == NestedCall(f.fn, f.at)
        g == [f EXCEPT !.at = AfterNested(f.fn, f.at)]
    IN  IF n = "" THEN [stack[t] EXCEPT ![m] = f]
        ELSE IF cache[n] # NoValue
             THEN [stack[t] EXCEPT ![m] = Receive(g, n, cache[n])]
             ELSE Append([stack[t] EXCEPT ![m] = g], Frame(n, "body", NoValue))

\* thread t's innermost call returns v: the wrapper fills the slot and hands
\* v to the caller
Complete(t, v) ==
    LET m == Len(stack[t])
        l == Top(t).fn
    IN  /\ cache' = [cache EXCEPT ![l] = LruStore(@, v)]
        /\ returned' = [returned EXCEPT ![l] = IF @ = NoValue THEN v ELSE @]
        /\ IF m = 1
           THEN /\ stack' = [stack EXCEPT ![t] = <<Done(l, v, Top(t).via)>>]
                /\ pc' = [pc EXCEPT ![t] = "done"]
           ELSE /\ stack' = [stack EXCEPT ![t] =
                                [SubSeq(@, 1, m - 1) EXCEPT
                                    ![m - 1] = Receive(@, l, v)]]
                /\ UNCHANGED pc

\* exception e unwinds to the handler, which answers with an error; the
\* call that was made is left standing at e
Raise(t, e) ==
    /\ stack' = [stack EXCEPT ![t] = <<[stack[t][1] EXCEPT !.at = e, !.val = NoValue,
                                                             !.got = NoValue]>>]
    /\ pc' = [pc EXCEPT ![t] = "failed"]
    /\ UNCHANGED <<cache, returned>>

\* the wrapper looks the slot of l up: a hit returns its value, a miss
\* enters the body
Enter(t, l, via) ==
    /\ IF cache[l] # NoValue
       THEN /\ stack' = [stack EXCEPT ![t] = <<Done(l, cache[l], via)>>]
            /\ pc' = [pc EXCEPT ![t] = "done"]
       ELSE /\ stack' = [stack EXCEPT ![t] =
                            <<[Frame(l, "body", NoValue) EXCEPT !.via = via]>>]
            /\ UNCHANGED pc
    /\ UNCHANGED <<joining, loaded, heap, req, ref, result, clsIn, clsOut,
                   disk, cache, runs, returned>>

\* a request handler calls a loader
Call(t, l) ==
    /\ stack[t] = <<>>
    /\ pc[t] = "idle"
    /\ Enter(t, l, "")

\* a helper is asked for the GP table's features, one GP or the GP list, and
\* calls load_gp_shapefile
CallHelper(t, h) ==
    /\ stack[t] = <<>>
    /\ pc[t] = "idle"
    /\ Enter(t, "load_gp_shapefile", h)

\* the body finds its file missing: FileNotFoundError, or the "unavailable"
\* value is returned
Missing(t) ==
    /\ Running(t)
    /\ Top(t).at = "body"
    /\ ~disk[BackingFile[Top(t).fn]]
    /\ IF Top(t).fn \in RaisesWhenMissing
       THEN Raise(t, "FileNotFoundError")
       ELSE Complete(t, WhenMissing(Top(t).fn))
    /\ UNCHANGED <<joining, loaded, heap, req, ref, result, clsIn, clsOut, disk, runs>>

\* the body reads its file (gpd.read_file / pd.read_csv / pd.read_excel) and
\* builds its table; load_gp_data adds GP_CODE when Vill_Gp_join.csv is there
Read(t) ==
    /\ Running(t)
    /\ Top(t).at = "body"
    /\ disk[BackingFile[Top(t).fn]]
    /\ runs' = [runs EXCEPT ![Top(t).fn] = @ + 1]
    /\ LET l == Top(t).fn
           v == Data(runs[l] + 1, l = "load_gp_data" /\ disk["Vill_Gp_join.csv"])
       IN  IF NestedCall(l, "built") = ""
           THEN Complete(t, v)
           ELSE /\ stack' = [stack EXCEPT ![t] =
                                Advance(t, [Top(t) EXCEPT !.at = "built", !.val = v])]
                /\ UNCHANGED <<pc, cache, returned>>
    /\ UNCHANGED <<joining, loaded, heap, req, ref, result, clsIn, clsOut, disk>>

\* load_gp_shapefile lines 370-372: the GP_CODE of the indicator table is
\* needed for the merge (KeyError without it); no table, no merge.  Then the
\* block mapping is fetched.
Merge(t) ==
    /\ Running(t)
    /\ Top(t).at = "merge"
    /\ IF Top(t).got.kind = "data" /\ ~Top(t).got.hasCode
       THEN Raise(t, "KeyError")
       ELSE /\ stack' = [stack EXCEPT ![t] = Advance(t, [Top(t) EXCEPT !.at = "joined"])]
            /\ UNCHANGED <<pc, cache, returned>>
    /\ UNCHANGED <<joining, loaded, heap, req, ref, result, clsIn, clsOut, disk, runs>>

\* whether the table load_gp_shapefile has built carries GP_NAME (line 379)
HasGpName(f) == disk["grampanchayat.shp:GP_NAME"] \/ f.got.kind = "data"

\* the rest of the body runs and the call returns
Finish(t) ==
    /\ Running(t)
    /\ Top(t).at = "finish"
    /\ IF Top(t).fn = "load_gp_shapefile" /\ ~HasGpName(Top(t))
       THEN Raise(t, "KeyError")
       ELSE Complete(t, Top(t).val)
    /\ UNCHANGED <<joining, loaded, heap, req, ref, result, clsIn, clsOut, disk, runs>>

----------------------------------------------------------------------------
(* The tables the GP loaders build (data_utils.py lines 262-386).  A cell  *)
(* is [k, n, s]: k = "int" the integer n, k = "str" the string s written   *)
(* as a sequence of characters, k = "na" NaN / <NA>.  A table is           *)
(* [cols |-> column names, rows |-> sequence of rows]; a file that does    *)
(* not exist is NoFile.  Column names are taken as the files give them,    *)
(* without surrounding whitespace.                                         *)

Int64(x) == [k |-> "int", n |-> x, s |-> <<>>]
Str(chars) == [k |-> "str", n |-> 0, s |-> chars]
NA == [k |-> "na", n |-> 0, s |-> <<>>]

NoFile == [cols |-> {}, rows |-> <<>>, exists |-> FALSE]
File(cols, rows) == [cols |-> cols, rows |-> rows, exists |-> TRUE]

NoFiles == [shp |-> NoFile, xlsx |-> NoFile, vgj |-> NoFile, blocks |-> NoFile,
            first_col |-> ""]
\* the object in load_gp_data's cache slot: its table and the dtype of its
\* GP_CODE column ("not loaded" while the slot is empty, "none" for None,
\* "absent" for a table without GP_CODE)
GpDataObject(table, dtype) == [table |-> table, gp_code |-> dtype]
NotLoaded == GpDataObject(NoFile, "not loaded")

NotBuilt == [status |-> "not built", table |-> NoFile, mapping |-> <<>>,
             gp_data |-> NotLoaded]

\* str.upper(), str.lower() on one character of the names' alphabet
UpperChar(c) == CASE c = "a" -> "A" [] c = "b" -> "B" [] OTHER -> c
LowerChar(c) == CASE c = "A" -> "a" [] c = "B" -> "b" [] OTHER -> c
IsCased(c) == c \in {"a", "b", "A", "B"}

\* str.strip(): leading and trailing whitespace removed
RECURSIVE LStrip(_)
LStrip(s) == IF s # <<>> /\ Head(s) = " " THEN LStrip(Tail(s)) ELSE s
RECURSIVE RStrip(_)
RStrip(s) ==
    IF s # <<>> /\ s[Len(s)] = " " THEN RStrip(SubSeq(s, 1, Len(s) - 1)) ELSE s
Strip(s) == RStrip(LStrip(s))

\* str.upper()
Upper(s) == [i \in 1..Len(s) |-> UpperChar(s[i])]

\* str.title(): a cased character after an uncased one (or at the start) in
\* upper case, every other cased character in lower case
Title(s) ==
    [i \in 1..Len(s) |->
        IF i = 1 \/ ~IsCased(s[i - 1]) THEN UpperChar(s[i]) ELSE LowerChar(s[i])]

\* pd.to_numeric(errors='coerce') on a cell: text that is no number becomes NaN
Coerce(v) == IF v.k = "int" THEN v ELSE NA

\* Series.str.strip().str.upper() on a cell: NaN stays NaN
StripUpper(v) == IF v.k = "str" THEN Str(Upper(Strip(v.s))) ELSE NA

\* the table with column col set to f(row) in every row
Assign(tab, col, f(_)) ==
    [tab EXCEPT !.cols = @ \cup {col},
                !.rows = [i \in 1..Len(tab.rows) |->
                            [c \in tab.cols \cup {col} |->
                                IF c = col THEN f(tab.rows[i]) ELSE tab.rows[i][c]]]]

\* df.drop(columns=drop, errors='ignore')
Drop(tab, drop) ==
    [tab EXCEPT !.cols = @ \ drop,
                !.rows = [i \in 1..Len(tab.rows) |->
                            [c \in tab.cols \ drop |-> tab.rows[i][c]]]]

\* df.rename(columns={old: new})
Rename(tab, old, new) ==
    IF old \notin tab.cols THEN tab
    ELSE [tab EXCEPT !.cols = (@ \ {old}) \cup {new},
                     !.rows = [i \in 1..Len(tab.rows) |->
                                 [c \in (tab.cols \ {old}) \cup {new} |->
                                     IF c = new THEN tab.rows[i][old] ELSE tab.rows[i][c]]]]

\* the suffixes pandas gives the two sides of a column name found in both
\* tables of a merge
SuffixX ==
    [AD |-> "AD_x", GP_NAME |-> "GP_NAME_x", VIL_COUNT |-> "VIL_COUNT_x", BW |-> "BW_x"]
SuffixY ==
    [AD |-> "AD_y", GP_NAME |-> "GP_NAME_y", VIL_COUNT |-> "VIL_COUNT_y", BW |-> "BW_y"]

RECURSIVE Concat(_)
Concat(seqs) == IF seqs = <<>> THEN <<>> ELSE Head(seqs) \o Concat(Tail(seqs))

\* left.merge(right, on=key, how='left'): the left rows in order, each once
\* per right row with an equal key (null keys are equal to each other), or
\* once with the right columns missing; a column name of both tables other
\* than the key is kept twice, suffixed _x and _y
MergeLeft(left, right, key) ==
    LET both == (left.cols \cap right.cols) \ {key}
        lname(c) == IF c \in both THEN SuffixX[c] ELSE c
        rname(c) == IF c \in both THEN SuffixY[c] ELSE c
        rcols == right.cols \ {key}
        cols == {lname(c) : c \in left.cols} \cup {rname(c) : c \in rcols}
        joined(l, r) ==
            [c \in cols |->
                IF \E a \in left.cols : lname(a) = c
                THEN l[CHOOSE a \in left.cols : lname(a) = c]
                ELSE r[CHOOSE b \in rcols : rname(b) = c]]
        alone(l) ==
            [c \in cols |->
                IF \E a \in left.cols : lname(a) = c
                THEN l[CHOOSE a \in left.cols : lname(a) = c]
                ELSE NA]
        matches(l) == SelectSeq(right.rows, LAMBDA r : r[key] = l[key])
        out(l) == IF matches(l) = <<>> THEN <<alone(l)>>
                  ELSE [j \in 1..Len(matches(l)) |-> joined(l, matches(l)[j])]
    IN  [left EXCEPT !.cols = cols,
                     !.rows = Concat([i \in 1..Len(left.rows) |-> out(left.rows[i])])]

\* drop_duplicates(subset=col): the first row of every value of col
DropDuplicates(tab, col) ==
    [tab EXCEPT !.rows =
        LET keep == {i \in 1..Len(tab.rows) :
                        \A j \in 1..(i - 1) : tab.rows[j][col] # tab.rows[i][col]}
            idx(n) == CHOOSE i \in keep : Cardinality({j \in keep : j < i}) = n - 1
        IN  [n \in 1..Cardinality(keep) |-> tab.rows[idx(n)]]]

\* the dict built by the loop of load_gp_block_mapping over the first n rows:
\* a later row replaces an earlier one with the same key
RECURSIVE MappingLoop(_, _)
MappingLoop(rows, n) ==
    IF n = 0 THEN <<>>
    ELSE LET row == rows[n]
             rest == MappingLoop(rows, n - 1)
         IN  IF row["GP NAME"].k = "str" /\ row["BLOCK NAME"].k = "str"
             THEN (Upper(Strip(row["GP NAME"].s)) :> Strip(row["BLOCK NAME"].s)) @@ rest
             ELSE rest

\* {upper-cased trimmed GP name: trimmed block name}; {} without the file or
\* without its two columns.  The empty dict is the empty function.
load_gp_block_mapping(file) ==
    IF ~file.exists THEN <<>>
    ELSE IF "BLOCK NAME" \in file.cols /\ "GP NAME" \in file.cols
         THEN MappingLoop(file.rows, Len(file.rows))
         ELSE <<>>

\* column names that start with 'Unnamed', are 'nan' or end with '.1'
DropCols == {"Unnamed: 0", "Unnamed: 3", "nan", "AD.1"}

\* load_gp_data: [status, table]; status "none" for the missing workbook,
\* "KeyError" when the code mapping is to be attached and there is no GP_NAME
load_gp_data(xlsx, first_col, vgj) ==
    IF ~xlsx.exists THEN [status |-> "none", table |-> NoFile]
    ELSE
        LET d1 == [xlsx EXCEPT !.rows = Tail(@)]
            d2 == IF first_col = "Unnamed: 0" THEN Rename(d1, first_col, "GP_NAME") ELSE d1
            d3 == Drop(d2, DropCols)
            d4 == IF "BW" \in d3.cols THEN Assign(d3, "VIL_COUNT", LAMBDA r : r["BW"]) ELSE d3
            numeric(t) ==
                [t EXCEPT !.rows = [i \in 1..Len(t.rows) |->
                    [c \in t.cols |-> IF c = "GP_NAME" THEN t.rows[i][c]
                                      ELSE Coerce(t.rows[i][c])]]]
        IN  IF ~vgj.exists THEN [status |-> "ok", table |-> numeric(d4)]
            ELSE IF "GP_NAME" \notin d4.cols THEN [status |-> "KeyError", table |-> NoFile]
            ELSE
                LET m1 == DropDuplicates(vgj, "GP_CODE")
                    gp_code_map == Drop(Assign(m1, "_join", LAMBDA r : StripUpper(r["GP_NAME"])),
                                        {"GP_NAME"})
                    d5 == Assign(d4, "_join", LAMBDA r : StripUpper(r["GP_NAME"]))
                    d6 == Drop(MergeLeft(d5, gp_code_map, "_join"), {"_join"})
                IN  [status |-> "ok", table |-> numeric(d6)]

Tinsukia == Str(<<"T", "i", "n", "s", "u", "k", "i", "a">>)

\* the lambda of line 380 looking the name up as it is written
BlockNameOf_CaseSensitive(x, gp_block_mapping) ==
    IF x.k = "na" THEN Str(<<>>)
    ELSE LET key == Strip(x.s)
         IN  IF key \in DOMAIN gp_block_mapping
             THEN Str(Title(gp_block_mapping[key]))
             ELSE Str(Title(<<>>))

\* the lambda of line 380
BlockNameOf(x, gp_block_mapping) ==
    IF x.k = "na" THEN Str(<<>>)
    ELSE LET key == Upper(Strip(x.s))
         IN  IF key \in DOMAIN gp_block_mapping
             THEN Str(Title(gp_block_mapping[key]))
             ELSE Str(Title(<<>>))

\* gdf.merge(gp_data, on='GP_CODE', how='left')
MergeGpData(gdf, gp_data) == MergeLeft(gdf, gp_data, "GP_CODE")

\* the dtype pd.to_numeric leaves GP_CODE with at the end of load_gp_data
\* (lines 335-337): int64, or float64 when a code is missing
GpCodeDtype(table) ==
    IF "GP_CODE" \notin table.cols THEN "absent"
    ELSE IF \E i \in 1..Len(table.rows) : table.rows[i]["GP_CODE"].k # "int"
         THEN "float64" ELSE "int64"

\* what load_gp_data() leaves in its cache slot and returns
CachedGpData(gp) ==
    CASE gp.status = "ok" -> GpDataObject(gp.table, GpCodeDtype(gp.table))
      [] gp.status = "none" -> GpDataObject(NoFile, "none")
      [] OTHER -> NotLoaded

\* line 371, gp_data['GP_CODE'] = pd.to_numeric(...).astype('Int64'), on the
\* object load_gp_data returned, which is the one in its cache slot
AfterLine371(obj) ==
    GpDataObject(Assign(obj.table, "GP_CODE", LAMBDA r : Coerce(r["GP_CODE"])), "Int64")

\* load_gp_shapefile from line 361 on: [status, table, mapping, gp_data], gp_data
\* being the object in load_gp_data's cache slot when the call ends
load_gp_shapefile(shp, gp, gp_block_mapping) ==
    IF ~shp.exists
    THEN [status |-> "none", table |-> NoFile, mapping |-> gp_block_mapping,
          gp_data |-> NotLoaded]
    ELSE IF gp.status = "KeyError"
         THEN [status |-> "KeyError", table |-> NoFile, mapping |-> gp_block_mapping,
               gp_data |-> NotLoaded]
    ELSE
        LET g1 == Assign(shp, "GP_CODE", LAMBDA r : Coerce(r["GP_CODE"]))
            g2 == Drop(g1, {"VIL_COUNT"})
            raises == gp.status = "ok" /\ "GP_CODE" \notin gp.table.cols
            cached == IF gp.status = "ok" /\ ~raises
                      THEN AfterLine371(CachedGpData(gp)) ELSE CachedGpData(gp)
            gp_data == cached.table
            g3 == IF gp.status = "ok" THEN MergeGpData(g2, gp_data) ELSE g2
            g4 == Assign(g3, "Dist_Name", LAMBDA r : Tinsukia)
        IN  IF raises \/ "GP_NAME" \notin g4.cols
            THEN [status |-> "KeyError", table |-> NoFile, mapping |-> gp_block_mapping,
                  gp_data |-> cached]
            ELSE [status |-> "ok",
                  table |-> Assign(g4, "Block_Name",
                                   LAMBDA r : BlockNameOf(r["GP_NAME"], gp_block_mapping)),
                  mapping |-> gp_block_mapping,
                  gp_data |-> cached]

----------------------------------------------------------------------------
(* get_intervention_config on the rows of DSS_input2.csv and the unit      *)
(* table.  A definition row holds its Cluster as characters and its other  *)
(* cells as [k, n, d, s] values; I_variable is the text of a column name.  *)

\* row.get(c): None when the table has no such column
RowGet(row, c) == IF c \in DOMAIN row THEN row[c] ELSE None

\* str.lower()
Lower(s) == [i \in 1..Len(s) |-> LowerChar(s[i])]

\* phrase in name
Contains(s, p) == \E i \in 0..(Len(s) - Len(p)) : SubSeq(s, i + 1, i + Len(p)) = p

skip_phrases ==
    {<<"n", "e", "w", " ", "i", "n", "t", "e", "r", "n", "v", "e", "n", "t", "i", "o", "n", "s">>,
     <<"n", "e", "w", " ", "i", "n", "t", "e", "r", "v", "e", "n", "t", "i", "o", "n", "s">>,
     <<"s", "h", "o", "u", "l", "d", " ", "b", "e", " ", "p", "o", "s", "s", "i", "b", "l", "e">>}

_is_valid_cluster(name) ==
    /\ name.k = "str"
    /\ Strip(name.s) # <<>>
    /\ \A phrase \in skip_phrases : ~Contains(Lower(Strip(name.s)), phrase)

\* float(v) raises ValueError on text that is no number
FloatRaises(v) == v.k = "str" /\ v.d = 0
Float(v) == IF v.k = "str" THEN Num(v.n) ELSE v

\* the numeric values of column field, in row order
Series(gdf, field) ==
    SelectSeq([i \in 1..Len(gdf.rows) |-> ToNumeric(gdf.rows[i][field])],
              LAMBDA v : v.k = "num")

\* data_min, data_max, data_mean of lines 141-147
DataStats(gdf, field) ==
    IF field \in gdf.cols /\ Series(gdf, field) # <<>>
    THEN LET series == Series(gdf, field)
             total == FracSum(series, 1)
         IN  [data_min |-> Kth(series, 1),
              data_max |-> Kth(series, Len(series)),
              data_mean |-> Frac(total.n, total.d * Len(series))]
    ELSE [data_min |-> Num(0), data_max |-> Num(100), data_mean |-> Num(50)]

\* the range bound taken from the unit table whatever the row says
RangeOf_Observed(cell, data) == data

\* float(row.get(...)) if pd.notna(row.get(...)) else data_min / data_max
RangeOf(cell, data) == IF ~IsNa(cell) THEN Float(cell) ELSE data

\* the dict appended for one definition row
VariableConfig(row, gdf) ==
    LET field == row["I_variable"].s
        stats == DataStats(gdf, field)
    IN  [field |-> field,
         range_min |-> RangeOf(RowGet(row, "range_min"), stats.data_min),
         range_max |-> RangeOf(RowGet(row, "range_max"), stats.data_max),
         weight |-> IF ~IsNa(RowGet(row, "I_weight")) THEN Float(RowGet(row, "I_weight"))
                    ELSE Num(1),
         data_min |-> stats.data_min,
         data_max |-> stats.data_max,
         data_mean |-> stats.data_mean]

\* a float() of the row's dict raises
RowRaises(row) ==
    \E c \in {"range_min", "range_max", "I_weight"} : FloatRaises(RowGet(row, c))

\* df[df['Cluster'] == cluster], then the rows with a variable code
VariableRows(df, cluster) ==
    SelectSeq(df.rows, LAMBDA row : /\ row["Cluster"] = Str(cluster)
                                    /\ ~IsNa(RowGet(row, "I_variable")))

Variables(df, gdf, cluster) ==
    LET rows == VariableRows(df, cluster)
    IN  [i \in 1..Len(rows) |-> VariableConfig(rows[i], gdf)]

\* df['Cluster'].dropna().unique()
UniqueClusters(df) ==
    SelectSeq(Column(DropDuplicates(df, "Cluster"), "Cluster"), LAMBDA v : v.k # "na")

\* the dict built by the loop over the first n cluster labels
RECURSIVE ConfigLoop(_, _, _, _)
ConfigLoop(df, gdf, clusters, n) ==
    IF n = 0 THEN <<>>
    ELSE LET rest == ConfigLoop(df, gdf, clusters, n - 1)
             cluster == Strip(clusters[n].s)
         IN  IF _is_valid_cluster(clusters[n])
             THEN (cluster :> Variables(df, gdf, cluster)) @@ rest
             ELSE rest

\* the dict built by the loop of get_interventions over the first n labels
RECURSIVE CatalogLoop(_, _)
CatalogLoop(clusters, n) ==
    IF n = 0 THEN <<>>
    ELSE LET rest == CatalogLoop(clusters, n - 1)
             cluster == Strip(clusters[n].s)
         IN  IF _is_valid_cluster(clusters[n])
             THEN (cluster :> [key |-> cluster, name |-> cluster]) @@ rest
             ELSE rest

\* get_interventions: [status, interventions]
get_interventions(csv) ==
    IF ~csv.exists THEN [status |-> "FileNotFoundError", interventions |-> <<>>]
    ELSE IF "Cluster" \notin csv.cols THEN [status |-> "KeyError", interventions |-> <<>>]
    ELSE [status |-> "ok",
          interventions |-> CatalogLoop(UniqueClusters(csv), Len(UniqueClusters(csv)))]

\* get_intervention_config: [status, interventions]
get_intervention_config(csv, gdf) ==
    IF ~csv.exists THEN [status |-> "FileNotFoundError", interventions |-> <<>>]
    ELSE IF "Cluster" \notin csv.cols THEN [status |-> "KeyError", interventions |-> <<>>]
    ELSE
        LET clusters == UniqueClusters(csv)
            raises ==
                \E n \in 1..Len(clusters) :
                    /\ _is_valid_cluster(clusters[n])
                    /\ LET rows == VariableRows(csv, Strip(clusters[n].s))
                       IN  \E i \in 1..Len(rows) : RowRaises(rows[i])
        IN  IF raises THEN [status |-> "ValueError", interventions |-> <<>>]
            ELSE [status |-> "ok",
                  interventions |-> ConfigLoop(csv, gdf, clusters, Len(clusters))]

----------------------------------------------------------------------------
(* Objects: the cached table is object Cached, thread t's copy is object t *)

Cached == 0
Threads == 1..NumThreads
NoTable == [cols |-> {}, rows |-> <<>>]

\* add_feasibility_to_gdf without the copy: gdf still names the caller's table
LocalWithoutCopy(t) == Cached

\* the object the local name gdf refers to after "gdf = gdf.copy()"
LocalAfterCopy(t) == t

\* the heap after each statement of add_feasibility_to_gdf run by thread t
AfterCopy(h, t) == [h EXCEPT ![LocalAfterCopy(t)] = CopyOf(h[Cached])]
AfterFeasibility(h, o, r) == [h EXCEPT ![o] = WithFeasibility(h[o], r.criteria, r.logic)]
AfterClassLabel(h, o) == [h EXCEPT ![o] = WithClassLabel(h[o])]
AfterColor(h, o) == [h EXCEPT ![o] = WithColor(h[o])]
\* the call returns: the copy is no longer referenced
AfterReturn(h, t) == [h EXCEPT ![t] = NoTable]

\* the loaders that have run once the block table is in the cache
WarmLoaders == {"load_shapefile", "load_district_mapping"}

InitWith(tab) ==
    /\ loaded = tab
    /\ heap = [o \in {Cached} \cup Threads |-> IF o = Cached THEN tab ELSE NoTable]
    /\ pc = [t \in Threads |-> "idle"]
    /\ req = [t \in Threads |-> NoRequest]
    /\ ref = [t \in Threads |-> Cached]
    /\ result = [t \in Threads |-> NoResult]
    /\ clsIn = None
    /\ clsOut = <<"", "">>
    /\ disk = [f \in DiskFacts |-> TRUE]
    /\ cache = [l \in Loaders |-> IF l \in WarmLoaders THEN Data(1, FALSE) ELSE NoValue]
    /\ runs = [l \in Loaders |-> IF l \in WarmLoaders THEN 1 ELSE 0]
    /\ returned = [l \in Loaders |-> IF l \in WarmLoaders THEN Data(1, FALSE) ELSE NoValue]
    /\ stack = [t \in Threads |-> <<>>]
    /\ files = NoFiles
    /\ built = NotBuilt

----------------------------------------------------------------------------
(* One scoring request served from start to end with nothing in between:  *)
(* api_calculate_feasibility with explicit filters                         *)

Score(t, criteria, logic, district) ==
    /\ pc[t] = "idle"
    /\ LET r == Request(criteria, logic, district)
           o == LocalAfterCopy(t)
       IN  \E h1 \in {AfterCopy(heap, t)} :
           \E h2 \in {AfterFeasibility(h1, o, r)} :
           \E h3 \in {AfterClassLabel(h2, o)} :
           \E h4 \in {AfterColor(h3, o)} :
               /\ req' = [req EXCEPT ![t] = r]
               /\ result' = [result EXCEPT ![t] = ResultOf(h4[o], district)]
               /\ heap' = AfterReturn(h4, t)
    /\ pc' = [pc EXCEPT ![t] = "done"]
    /\ UNCHANGED <<joining, loaded, ref, clsIn, clsOut, loading>>

Init == \E tab \in Tables : InitWith(tab)

Next ==
    \E criteria \in CriteriaLists, district \in Districts :
        Score(1, criteria, "AND", district)

Spec == Init /\ [][Next]_vars

----------------------------------------------------------------------------
(* Scoring requests with a statistics scope, on block tables with and      *)
(* without the district columns: Dist_Name is there only when the district *)
(* mapping was available (load_shapefile line 49), DISTRICT_I only when    *)
(* the shapefile carries it                                                *)

\* the table with only the columns in cols
Project(tab, cols) ==
    [cols |-> tab.cols \cap cols,
     rows |-> [i \in 1..Len(tab.rows) |-> [c \in tab.cols \cap cols |-> tab.rows[i][c]]]]

ScopeColumnSets ==
    {Columns, Columns \ {"Dist_Name"}, Columns \ {"DISTRICT_I"},
     Columns \ {"Dist_Name", "DISTRICT_I"}}

ScopeTables ==
    {Project(tab, cols) : tab \in TablesOver({Num(20)}, {Num(60)}), cols \in ScopeColumnSets}

ScopeCriteria ==
    {Criterion("AD", Num(20), Num(40), 1),
     Criterion("BF", Num(20), Num(40), 3),
     Criterion("ZZ", Num(20), Num(40), 1)}

\* no district, "" and 0 (both falsy), a district name, a name no unit has,
\* and a district id sent as text or as a number
ScopeDistricts ==
    {None, Text(""), Num(0), Text("A"), Text("B"), Text("X"), NumStr(1), Num(1), NumStr(7)}

InitScope == \E tab \in ScopeTables : InitWith(tab)

NextScope ==
    \E criteria \in ListsOver(ScopeCriteria), district \in ScopeDistricts :
        Score(1, criteria, "AND", district)

SpecScope == InitScope /\ [][NextScope]_vars

----------------------------------------------------------------------------
(* Request threads serving scoring requests side by side on the cached     *)
(* table, one statement of add_feasibility_to_gdf at a time                *)

ConcTables == TablesOver({Num(20)}, BFValues)

ConcRequests ==
    {Request(<<Criterion("AD", Num(20), Num(40), 1)>>, "AND", None),
     Request(<<Criterion("AD", Num(40), Num(60), 1),
               Criterion("BF", Num(40), Num(60), 3)>>, "AND", Text("A")),
     Request(<<Criterion("BF", Num(20), Num(40), 3)>>, "OR", Text("X"))}

\* the handler has parsed the request and fetched the cached table
Begin(t, r) ==
    /\ pc[t] = "idle"
    /\ pc' = [pc EXCEPT ![t] = "copy"]
    /\ req' = [req EXCEPT ![t] = r]
    /\ ref' = [ref EXCEPT ![t] = Cached]
    /\ UNCHANGED <<joining, loaded, heap, result, clsIn, clsOut, loading>>

\* gdf = gdf.copy()
Copy(t) ==
    /\ pc[t] = "copy"
    /\ heap' = AfterCopy(heap, t)
    /\ ref' = [ref EXCEPT ![t] = LocalAfterCopy(t)]
    /\ pc' = [pc EXCEPT ![t] = "feasibility"]
    /\ UNCHANGED <<joining, loaded, req, result, clsIn, clsOut, loading>>

\* gdf['feasibility'] = calculate_feasibility(gdf, criteria, logic)
Feasibility(t) ==
    /\ pc[t] = "feasibility"
    /\ heap' = AfterFeasibility(heap, ref[t], req[t])
    /\ pc' = [pc EXCEPT ![t] = "classify"]
    /\ UNCHANGED <<joining, loaded, req, ref, result, clsIn, clsOut, loading>>

\* gdf['feasibility_class'], gdf['feasibility_label']
ClassLabel(t) ==
    /\ pc[t] = "classify"
    /\ heap' = AfterClassLabel(heap, ref[t])
    /\ pc' = [pc EXCEPT ![t] = "color"]
    /\ UNCHANGED <<joining, loaded, req, ref, result, clsIn, clsOut, loading>>

\* gdf['feasibility_color']
Color(t) ==
    /\ pc[t] = "color"
    /\ heap' = AfterColor(heap, ref[t])
    /\ pc' = [pc EXCEPT ![t] = "stats"]
    /\ UNCHANGED <<joining, loaded, req, ref, result, clsIn, clsOut, loading>>

\* the scoped statistics, the GeoJSON, and the return to the handler
Return(t) ==
    /\ pc[t] = "stats"
    /\ result' = [result EXCEPT ![t] = ResultOf(heap[ref[t]], req[t].district)]
    /\ heap' = AfterReturn(heap, t)
    /\ ref' = [ref EXCEPT ![t] = Cached]
    /\ pc' = [pc EXCEPT ![t] = "done"]
    /\ UNCHANGED <<joining, loaded, req, clsIn, clsOut, loading>>

\* the response is sent; the thread is free for the next request
Respond(t) ==
    /\ pc[t] = "done"
    /\ pc' = [pc EXCEPT ![t] = "idle"]
    /\ req' = [req EXCEPT ![t] = NoRequest]
    /\ result' = [result EXCEPT ![t] = NoResult]
    /\ UNCHANGED <<joining, loaded, heap, ref, clsIn, clsOut, loading>>

InitConc == \E tab \in ConcTables : InitWith(tab)

NextConc ==
    \E t \in Threads :
        \/ \E r \in ConcRequests : Begin(t, r)
        \/ Copy(t)
        \/ Feasibility(t)
        \/ ClassLabel(t)
        \/ Color(t)
        \/ Return(t)
        \/ Respond(t)

SpecConc == InitConc /\ [][NextConc]_vars

----------------------------------------------------------------------------
(* classify_feasibility on its own, over scores written with two decimals  *)

ClassifyInputs ==
    {Frac(h, 100) : h \in (0 - 100)..10100}
    \cup {NaN, None, Text("abc"), NumStr(75), PosInf, NegInf}

Classify(v) ==
    /\ clsOut[1] = ""
    /\ clsIn' = v
    /\ clsOut' = classify_feasibility(v)
    /\ UNCHANGED <<scoring, loading, joining>>

InitClassify == InitWith([cols |-> Columns, rows |-> <<>>])

NextClassify == \E v \in ClassifyInputs : Classify(v)

SpecClassify == InitClassify /\ [][NextClassify]_vars

----------------------------------------------------------------------------
(* Request threads calling the loaders from a cold start *)

InitCache ==
    /\ loaded = NoTable
    /\ heap = [o \in {Cached} \cup Threads |-> NoTable]
    /\ pc = [t \in Threads |-> "idle"]
    /\ req = [t \in Threads |-> NoRequest]
    /\ ref = [t \in Threads |-> Cached]
    /\ result = [t \in Threads |-> NoResult]
    /\ clsIn = None
    /\ clsOut = <<"", "">>
    /\ disk \in DiskStates
    /\ cache = [l \in Loaders |-> NoValue]
    /\ runs = [l \in Loaders |-> 0]
    /\ returned = [l \in Loaders |-> NoValue]
    /\ stack = [t \in Threads |-> <<>>]
    /\ files = NoFiles
    /\ built = NotBuilt

NextCache ==
    \E t \in Threads :
        \/ \E l \in EntryLoaders : Call(t, l)
        \/ Missing(t)
        \/ Read(t)
        \/ Merge(t)
        \/ Finish(t)

SpecCache == InitCache /\ [][NextCache]_vars

----------------------------------------------------------------------------
(* Requests served one after the other from a cold start, to handlers and  *)
(* to the GP helpers, with any one data file missing                       *)

\* no request is being served
Quiet == \A u \in Threads : ~Running(u)

HandlerRequest(t, l) ==
    /\ Quiet
    /\ Call(t, l)

HelperRequest(t, h) ==
    /\ Quiet
    /\ CallHelper(t, h)

NextMissing ==
    \E t \in Threads :
        \/ \E l \in EntryLoaders : HandlerRequest(t, l)
        \/ \E h \in GpHelpers : HelperRequest(t, h)
        \/ Missing(t)
        \/ Read(t)
        \/ Merge(t)
        \/ Finish(t)

SpecMissing == InitCache /\ [][NextMissing]_vars

----------------------------------------------------------------------------
(* Requests that need the block table or the definition table, repeated    *)
(* after an answer or an error, while a missing data file may be put in    *)
(* place                                                                   *)

RetryLoaders == {"load_shapefile", "load_metadata"}

\* a request handler calls load_shapefile or load_metadata
LoaderRequest(t, l) ==
    /\ l \in RetryLoaders
    /\ Call(t, l)

\* the handler has answered (with the data or, from its except clause, with
\* the error); the thread serves the next request
NextRequest(t) ==
    /\ pc[t] \in {"done", "failed"}
    /\ stack' = [stack EXCEPT ![t] = <<>>]
    /\ pc' = [pc EXCEPT ![t] = "idle"]
    /\ UNCHANGED <<joining, loaded, heap, req, ref, result, clsIn, clsOut,
                   disk, cache, runs, returned>>

\* a file the loaders look for with exists() is put into the data directory
FileArrives(f) ==
    /\ ~disk[f]
    /\ disk' = [disk EXCEPT ![f] = TRUE]
    /\ UNCHANGED <<joining, loaded, heap, pc, req, ref, result, clsIn, clsOut,
                   cache, runs, returned, stack>>

NextRetry ==
    \/ \E t \in Threads :
        \/ \E l \in RetryLoaders : LoaderRequest(t, l)
        \/ NextRequest(t)
        \/ Missing(t)
        \/ Read(t)
        \/ Finish(t)
    \/ \E l \in RetryLoaders : FileArrives(BackingFile[l])

SpecRetry == InitCache /\ [][NextRetry]_vars

----------------------------------------------------------------------------
(* load_gp_shapefile run on the contents of its four files *)

\* GP_CODE as the geometry file may give it: two codes and a text that is no number
GpCodes == {Int64(1), Int64(2), Str(<<"a">>)}

\* the columns of grampanchayat.shp besides GP_CODE and geometry
ShpExtraColumns == {{}, {"VIL_COUNT", "AD"}, {"GP_NAME"}}

\* row i of the geometry file; geometry is the row's own shape
ShpRow(code, extra, i) ==
    [c \in {"GP_CODE", "geometry"} \cup extra |->
        CASE c = "GP_CODE" -> code
          [] c = "geometry" -> Int64(i)
          [] c = "GP_NAME" -> IF i % 2 = 1 THEN Str(<<"a", " ">>) ELSE NA
          [] OTHER -> Int64(5)]

ShpFiles ==
    {NoFile} \cup
    {File({"GP_CODE", "geometry"} \cup extra, [i \in 1..Len(codes) |-> ShpRow(codes[i], extra, i)]) :
        extra \in ShpExtraColumns, codes \in UNION {[1..m -> GpCodes] : m \in 0..MaxGps}}

\* a sheet of Tinsukia_GP_data.xlsx: the label row, then one row per GP with
\* its name in column fc and its AD value; further columns hold 7
Sheet(fc, more, gps) ==
    File({fc, "AD"} \cup more,
         [i \in 1..(Len(gps) + 1) |->
            [c \in {fc, "AD"} \cup more |->
                IF i = 1 THEN Str(<<"l">>)
                ELSE CASE c = fc -> gps[i - 1][1]
                       [] c = "AD" -> gps[i - 1][2]
                       [] OTHER -> Int64(7)]])

\* the workbooks: <<first column, sheet>>
XlsxFiles ==
    {<<"", NoFile>>,
     <<"Unnamed: 0", Sheet("Unnamed: 0", {}, <<>>)>>,
     <<"Unnamed: 0", Sheet("Unnamed: 0", {},
                           << <<Str(<<" ", "a">>), Int64(30)>>,
                              <<Str(<<"B">>), Str(<<"b">>)>> >>)>>,
     <<"Unnamed: 0", Sheet("Unnamed: 0", {"AD.1", "BW"},
                           << <<Str(<<"a">>), Int64(30)>>,
                              <<Str(<<"A", " ">>), Int64(31)>>,
                              <<NA, Int64(32)>> >>)>>,
     <<"GP_NAME", Sheet("GP_NAME", {"Unnamed: 3"}, << <<Str(<<"b">>), Int64(30)>> >>)>>,
     <<"AD", Sheet("AD", {"BW"}, << <<Int64(30), Int64(30)>> >>)>>}

CodeRows(pairs) ==
    File({"GP_NAME", "GP_CODE"},
         [i \in 1..Len(pairs) |-> [c \in {"GP_NAME", "GP_CODE"} |->
                                     IF c = "GP_NAME" THEN pairs[i][1] ELSE pairs[i][2]]])

\* Vill_Gp_join.csv
VgjFiles ==
    {NoFile,
     CodeRows(<< <<Str(<<"A">>), Int64(1)>>, <<Str(<<"b">>), Int64(2)>> >>),
     CodeRows(<< <<Str(<<"a", " ">>), Int64(1)>>, <<Str(<<"A">>), Int64(2)>>,
                 <<Str(<<"B">>), Int64(1)>> >>),
     CodeRows(<< <<NA, Int64(1)>>, <<Str(<<"b">>), Str(<<"b">>)>> >>)}

BlockRows(cols, pairs) ==
    File(cols,
         [i \in 1..Len(pairs) |-> [c \in cols |->
                                     IF c = "GP NAME" THEN pairs[i][1] ELSE pairs[i][2]]])

\* Block_GPs.xlsx
BlockFiles ==
    {NoFile,
     BlockRows({"GP NAME", "BLOCK NAME"},
               << <<Str(<<"a">>), Str(<<"a", "b">>)>>,
                  <<Str(<<" ", "A">>), Str(<<" ", "B", "A", " ">>)>> >>),
     BlockRows({"GP NAME", "BLOCK NAME"},
               << <<Str(<<"B">>), Str(<<"a", " ", "b">>)>>,
                  <<Str(<<"a">>), NA>>,
                  <<NA, Str(<<"b">>)>> >>),
     BlockRows({"GP NAME"}, << <<Str(<<"a">>), NA>> >>)}

\* the first call of load_gp_shapefile, with the calls it makes
LoadGp ==
    /\ built = NotBuilt
    /\ built' = load_gp_shapefile(files.shp,
                                  load_gp_data(files.xlsx, files.first_col, files.vgj),
                                  load_gp_block_mapping(files.blocks))
    /\ UNCHANGED <<scoring, clsIn, clsOut, loading, files>>

\* what the data directory holds, read off the files
DiskOf(f) ==
    [d \in DiskFacts |->
        CASE d = "grampanchayat.shp" -> f.shp.exists
          [] d = "Tinsukia_GP_data.xlsx" -> f.xlsx.exists
          [] d = "Vill_Gp_join.csv" -> f.vgj.exists
          [] d = "Block_GPs.xlsx" -> f.blocks.exists
          [] d = "grampanchayat.shp:GP_NAME" -> "GP_NAME" \in f.shp.cols
          [] OTHER -> TRUE]

InitJoin ==
    /\ \E shp \in ShpFiles, x \in XlsxFiles, vgj \in VgjFiles, blocks \in BlockFiles :
           files = [shp |-> shp, xlsx |-> x[2], vgj |-> vgj, blocks |-> blocks,
                    first_col |-> x[1]]
    /\ built = NotBuilt
    /\ disk = DiskOf(files)
    /\ loaded = NoTable
    /\ heap = [o \in {Cached} \cup Threads |-> NoTable]
    /\ pc = [t \in Threads |-> "idle"]
    /\ req = [t \in Threads |-> NoRequest]
    /\ ref = [t \in Threads |-> Cached]
    /\ result = [t \in Threads |-> NoResult]
    /\ clsIn = None
    /\ clsOut = <<"", "">>
    /\ cache = [l \in Loaders |-> NoValue]
    /\ runs = [l \in Loaders |-> 0]
    /\ returned = [l \in Loaders |-> NoValue]
    /\ stack = [t \in Threads |-> <<>>]

NextJoin == LoadGp

SpecJoin == InitJoin /\ [][NextJoin]_vars

----------------------------------------------------------------------------
(* get_intervention_config run on a definition table and a unit table *)

\* unit tables with two different numbers, text and missing values
ConfigTables == TablesOver({Text("n/a"), Num(20), Num(30)}, {NaN, Num(60)})

DefinitionColumns == {"Cluster", "I_variable", "range_min", "range_max", "I_weight"}

DefRow(cols, cluster, var, lo, hi, w) ==
    [c \in cols |->
        CASE c = "Cluster" -> cluster
          [] c = "I_variable" -> var
          [] c = "range_min" -> lo
          [] c = "range_max" -> hi
          [] OTHER -> w]

Placeholder ==
    Str(<<"s", "h", "o", "u", "l", "d", " ", "b", "e", " ", "p", "o", "s", "s", "i", "b", "l", "e">>)

\* DSS_input2.csv
DefinitionFiles ==
    {NoFile,
     File(DefinitionColumns, <<>>),
     File(DefinitionColumns,
          << DefRow(DefinitionColumns, Str(<<"a">>), Text("AD"), Num(10), Num(40), Num(2)),
             DefRow(DefinitionColumns, Str(<<"a">>), Text("BF"), NaN, NaN, NaN),
             DefRow(DefinitionColumns, Str(<<"a">>), Text("ZZ"), NaN, Num(50), NaN),
             DefRow(DefinitionColumns, Str(<<"a">>), NaN, Num(1), Num(2), NaN) >>),
     File(DefinitionColumns,
          << DefRow(DefinitionColumns, Str(<<" ", "a">>), Text("AD"), NaN, Num(40), NaN),
             DefRow(DefinitionColumns, Str(<<"a">>), Text("AD"), NumStr(10), NaN, NumStr(3)),
             DefRow(DefinitionColumns, NA, Text("BF"), NaN, NaN, NaN),
             DefRow(DefinitionColumns, Placeholder, Text("BF"), Text("x"), NaN, NaN) >>),
     File(DefinitionColumns,
          << DefRow(DefinitionColumns, Str(<<"b">>), Text("AD"), NaN, NaN, NaN),
             DefRow(DefinitionColumns, Str(<<"b">>), Text("Dist_Name"), NaN, NaN, NaN),
             DefRow(DefinitionColumns, Str(<<"a">>), Text("BF"), Num(0), NaN, Num(0)) >>),
     File(DefinitionColumns,
          << DefRow(DefinitionColumns, Str(<<"b">>), Text("AD"), Text("x"), NaN, NaN) >>),
     File(DefinitionColumns,
          << DefRow(DefinitionColumns, Str(<<" ", "b">>), Text("AD"), Num(10), NaN, NaN),
             DefRow(DefinitionColumns, Str(<<"b", " ">>), Text("BF"), NaN, NaN, NaN),
             DefRow(DefinitionColumns, Str(<<"a">>), NaN, Num(1), Num(2), NaN) >>),
     File({"Cluster", "I_variable"},
          << DefRow({"Cluster", "I_variable"}, Str(<<"a">>), Text("AD"), NaN, NaN, NaN),
             DefRow({"Cluster", "I_variable"}, Str(<<"b">>), Text("BF"), NaN, NaN, NaN) >>),
     File({"I_variable", "range_min"},
          << DefRow({"I_variable", "range_min"}, NA, Text("AD"), Num(10), NaN, NaN) >>)}

ConfigNotBuilt == [status |-> "not built", interventions |-> <<>>]

\* the call of get_intervention_config
GetInterventionConfig ==
    /\ built = ConfigNotBuilt
    /\ built' = get_intervention_config(files.csv, loaded)
    /\ UNCHANGED <<scoring, clsIn, clsOut, loading, files>>

InitConfig ==
    /\ \E csv \in DefinitionFiles : files = [csv |-> csv]
    /\ \E tab \in ConfigTables : /\ loaded = tab
                                 /\ heap = [o \in {Cached} \cup Threads |->
                                              IF o = Cached THEN tab ELSE NoTable]
    /\ built = ConfigNotBuilt
    /\ disk = [f \in DiskFacts |-> f = "DSS_input2.csv" => files.csv.exists]
    /\ pc = [t \in Threads |-> "idle"]
    /\ req = [t \in Threads |-> NoRequest]
    /\ ref = [t \in Threads |-> Cached]
    /\ result = [t \in Threads |-> NoResult]
    /\ clsIn = None
    /\ clsOut = <<"", "">>
    /\ cache = [l \in Loaders |-> NoValue]
    /\ runs = [l \in Loaders |-> 0]
    /\ returned = [l \in Loaders |-> NoValue]
    /\ stack = [t \in Threads |-> <<>>]

\* a call of get_interventions (the catalog the pages are built from)
GetInterventions ==
    /\ pc[2] = "idle"
    /\ result' = [result EXCEPT ![2] = get_interventions(files.csv)]
    /\ pc' = [pc EXCEPT ![2] = "done"]
    /\ UNCHANGED <<joining, loaded, heap, req, ref, clsIn, clsOut, loading>>

NextConfig == GetInterventionConfig \/ GetInterventions

SpecConfig == InitConfig /\ [][NextConfig]_vars

----------------------------------------------------------------------------
(* api_calculate_feasibility with an intervention name in the request *)

\* the request's 'intervention': none (or empty), names of the definition
\* tables, a name with a blank, a name of no table
InterventionNames == {<<>>, <<"a">>, <<"b">>, <<" ", "a">>, <<"z">>}

\* the request's 'filters'
FilterLists ==
    {<<>>,
     <<Criterion("AD", Num(20), Num(40), 1)>>,
     <<Criterion("BF", None, Num(40), 3), Criterion("AD", Num(30), None, 1)>>}

\* the defaults put in place of explicit filters whenever an intervention is named
FiltersUsed_DefaultsFirst(intervention, filters, config) ==
    IF intervention # <<>> /\ intervention \in DOMAIN config
    THEN [i \in 1..Len(config[intervention]) |->
             LET v == config[intervention][i]
             IN  [column |-> v.field, min_val |-> v.range_min,
                  max_val |-> v.range_max, weight |-> v.weight.n]]
    ELSE filters

\* lines 476-487: the criteria the request is scored with; the weights of the
\* definition tables are whole numbers
FiltersUsed(intervention, filters, config) ==
    IF intervention # <<>> /\ filters = <<>> /\ intervention \in DOMAIN config
    THEN [i \in 1..Len(config[intervention]) |->
             LET v == config[intervention][i]
             IN  [column |-> v.field, min_val |-> v.range_min,
                  max_val |-> v.range_max, weight |-> v.weight.n]]
    ELSE filters

\* the 500 answer of the except branch
ErrorResult(e) == [status |-> e, geojson |-> <<>>, statistics |-> EmptyDict]

\* the handler; req keeps the filters as posted and the criteria scored with
ApiCalculateFeasibility(t, intervention, filters, district) ==
    /\ pc[t] = "idle"
    /\ LET needsConfig == intervention # <<>> /\ filters = <<>>
           config == get_intervention_config(files.csv, loaded)
           used == FiltersUsed(intervention, filters, config.interventions)
       IN  /\ req' = [req EXCEPT ![t] =
                         [intervention |-> intervention, filters |-> filters,
                          criteria |-> used, logic |-> "AND", district |-> district]]
           /\ result' = [result EXCEPT ![t] =
                            IF needsConfig /\ config.status # "ok"
                            THEN ErrorResult(config.status)
                            ELSE calculate_and_get_geojson(heap[Cached], used, "AND", district)]
    /\ pc' = [pc EXCEPT ![t] = "done"]
    /\ UNCHANGED <<joining, loaded, heap, ref, clsIn, clsOut, loading>>

NextIntervention ==
    \E intervention \in InterventionNames, filters \in FilterLists :
        ApiCalculateFeasibility(1, intervention, filters, None)

SpecIntervention == InitConfig /\ [][NextIntervention]_vars

----------------------------------------------------------------------------
(* api_gp_calculate_feasibility on the cached GP collection *)

GpColumns == {"GP_CODE", "AD", "Block_Name", "Dist_Name"}

\* row i of a joined GP collection, in block "A", "B" or none
GpRow(ad, block, i) ==
    [c \in GpColumns |->
        CASE c = "GP_CODE" -> Num(i)
          [] c = "AD" -> ad
          [] c = "Block_Name" -> block
          [] OTHER -> Text("Tinsukia")]

GpBlocks == {Text("A"), Text("B"), Text("")}

GpTables ==
    UNION {{[cols |-> GpColumns, rows |-> [i \in 1..m |-> GpRow(a[i], b[i], i)]] :
               a \in [1..m -> ADValues], b \in [1..m -> GpBlocks]} : m \in 0..MaxGps}

\* the request's 'block': absent, empty, a block of the collection, another one
BlockFilters == {None, Text(""), Text("A"), Text("Z")}

\* gdf[gdf['Block_Name'] == block].copy()
ByBlock(gdf, block) == FilterRows(gdf, LAMBDA r : PyEq(r["Block_Name"], block))

\* the handler, with the GP collection in the cache
ApiGpCalculateFeasibility(t, filters, block) ==
    /\ pc[t] = "idle"
    /\ LET gdf == IF Truthy(block) THEN ByBlock(heap[Cached], block) ELSE heap[Cached]
       IN  result' = [result EXCEPT ![t] =
                        IF ~disk["grampanchayat.shp"] THEN ErrorResult("404")
                        ELSE calculate_and_get_geojson(gdf, filters, "AND", None)]
    /\ req' = [req EXCEPT ![t] = [criteria |-> filters, logic |-> "AND", block |-> block]]
    /\ pc' = [pc EXCEPT ![t] = "done"]
    /\ UNCHANGED <<joining, loaded, heap, ref, clsIn, clsOut, loading>>

InitGp == \E tab \in GpTables : InitWith(tab)

NextGp ==
    \E filters \in FilterLists, block \in BlockFilters :
        ApiGpCalculateFeasibility(1, filters, block)

SpecGp == InitGp /\ [][NextGp]_vars

----------------------------------------------------------------------------
(* The same scoring request served with logic "AND" and then with "OR" *)

\* api_calculate_feasibility with logic "AND"
ScoreAnd(criteria, district) ==
    /\ pc[2] = "idle"
    /\ Score(1, criteria, "AND", district)

\* the same criteria and district posted again with logic "OR"
ScoreOr ==
    /\ pc[1] = "done"
    /\ Score(2, req[1].criteria, "OR", req[1].district)

\* statistics scoped to one district, the map over all
LogicDistricts == {Text("A")}

NextLogic ==
    \/ \E criteria \in CriteriaLists, district \in LogicDistricts : ScoreAnd(criteria, district)
    \/ ScoreOr

SpecLogic == Init /\ [][NextLogic]_vars

----------------------------------------------------------------------------
(* Scoring requests whose criteria leave bounds out or give them as null *)

BoundCriteria ==
    {[column |-> "AD", min_val |-> None, max_val |-> None, weight |-> 1],
     [column |-> "AD"],
     [column |-> "AD", min_val |-> Num(20), weight |-> 3],
     [column |-> "AD", max_val |-> Num(10), weight |-> 1],
     [column |-> "BF", min_val |-> NaN, max_val |-> Num(60), weight |-> 1],
     [field |-> "BF", range_min |-> Num(70), range_max |-> None],
     [column |-> "AD", min_val |-> None, range_min |-> Num(30), max_val |-> Num(40)]}

BoundLists == UNION {[1..m -> BoundCriteria] : m \in 0..MaxCriteria}

\* api_calculate_feasibility with such criteria, no district
ScoreBounds(criteria) ==
    /\ result[1] = NoResult
    /\ Score(1, criteria, "AND", None)

NextBounds == \E criteria \in BoundLists : ScoreBounds(criteria)

SpecBounds == Init /\ [][NextBounds]_vars

----------------------------------------------------------------------------
(* What the claims speak of, said without the engine's operators *)

DerivedColumns ==
    {"feasibility", "feasibility_class", "feasibility_label", "feasibility_color"}

Returned(t) == pc[t] = "done" /\ result[t].status = "ok"

\* the score of unit i in the result thread t got (NaN arrives as null)
ScoreOf(t, i) == result[t].geojson[i]["feasibility"]
Undefined(sc) == sc.k = "none"
Within0To100(sc) == sc.k = "num" /\ sc.d > 0 /\ 0 <= sc.n /\ sc.n <= 100 * sc.d

\* criterion c is applicable to unit i: its column exists and the value is numeric
HasValue(tab, i, c) ==
    /\ c.column \in tab.cols
    /\ LET v == tab.rows[i][c.column]
       IN  v.k = "num" \/ (v.k = "str" /\ v.d = 1)

\* unit i has a value for c and it lies in [min, max], a null bound being open
InRange(tab, i, c) ==
    /\ HasValue(tab, i, c)
    /\ LET v == tab.rows[i][c.column]
       IN  /\ c.min_val.k = "none" \/ c.min_val.n * v.d <= v.n
           /\ c.max_val.k = "none" \/ v.n <= c.max_val.n * v.d

RECURSIVE TotalWeight(_)
TotalWeight(cs) == IF cs = <<>> THEN 0 ELSE Head(cs).weight + TotalWeight(Tail(cs))

WeightWithValue(tab, i, cs) ==
    TotalWeight(SelectSeq(cs, LAMBDA c : HasValue(tab, i, c)))
WeightMatched(tab, i, cs) ==
    TotalWeight(SelectSeq(cs, LAMBDA c : InRange(tab, i, c)))

Units == 1..Len(loaded.rows)

----------------------------------------------------------------------------
\* C1 (as stated): a unit's score is within [0,100] whenever at least one
\* criterion is applicable to it, and undefined exactly when none is.
C1_AsStated ==
    \A t \in Threads : Returned(t) =>
        \A i \in Units :
            IF \E j \in 1..Len(req[t].criteria) : HasValue(loaded, i, req[t].criteria[j])
            THEN Within0To100(ScoreOf(t, i))
            ELSE Undefined(ScoreOf(t, i))

\* C1 (amended): a unit's score is within [0,100] whenever the weights of the
\* criteria applicable to it sum to more than zero, and undefined exactly when
\* that sum is zero (no applicable criterion, or only weight-0 ones).
C1_ScoreRange ==
    \A t \in Threads : Returned(t) =>
        \A i \in Units :
            IF WeightWithValue(loaded, i, req[t].criteria) > 0
            THEN Within0To100(ScoreOf(t, i))
            ELSE Undefined(ScoreOf(t, i))

C1_Witness ==
    \E t \in Threads : Returned(t) /\
        \E i \in Units :
            /\ \E j \in 1..Len(req[t].criteria) : HasValue(loaded, i, req[t].criteria[j])
            /\ WeightWithValue(loaded, i, req[t].criteria) = 0
            /\ Undefined(ScoreOf(t, i))

\* C2: score = 100 * (weight of the criteria the unit has a value for and
\* matches) / (weight of the criteria the unit has a value for); in particular
\* weights 1 and 3 with only the weight-3 criterion matched give 75.
C2_WeightedRatio ==
    \A t \in Threads : Returned(t) =>
        \A i \in Units :
            LET cs == req[t].criteria
                den == WeightWithValue(loaded, i, cs)
                num == WeightMatched(loaded, i, cs)
                sc == ScoreOf(t, i)
            IN  /\ den > 0 => sc.k = "num" /\ sc.n * den = 100 * num * sc.d
                /\ den = 0 => Undefined(sc)
                /\ ( /\ Len(cs) = 2
                     /\ \E a, b \in 1..2 :
                          /\ cs[a].weight = 1 /\ cs[b].weight = 3
                          /\ HasValue(loaded, i, cs[a]) /\ ~InRange(loaded, i, cs[a])
                          /\ InRange(loaded, i, cs[b]) )
                   => sc = Num(75)

C2_Witness ==
    \E t \in Threads : Returned(t) /\
        \E i \in Units :
            LET cs == req[t].criteria
            IN  /\ Len(cs) = 2
                /\ cs[1].weight = 1 /\ cs[2].weight = 3
                /\ HasValue(loaded, i, cs[1]) /\ ~InRange(loaded, i, cs[1])
                /\ InRange(loaded, i, cs[2])
                /\ ScoreOf(t, i) = Num(75)

\* C3: for a criterion of the request with numeric bounds, the match of a
\* unit with a numeric value is 1 iff min <= value <= max (a value equal to
\* min or to max matches) and 0 otherwise; without a numeric value it is missing.
C3_InclusiveMatch ==
    \A t \in Threads : Returned(t) =>
        \A j \in 1..Len(req[t].criteria) :
            LET c == req[t].criteria[j]
                m == calculate_criteria_match(loaded, c.column, c.min_val, c.max_val)
            IN  (c.min_val.k = "num" /\ c.max_val.k = "num" /\ c.column \in loaded.cols) =>
                \A i \in Units :
                    IF HasValue(loaded, i, c)
                    THEN LET v == ToNumeric(loaded.rows[i][c.column]).n
                         IN  /\ m[i] \in {Num(0), Num(1)}
                             /\ m[i] = Num(1) <=> (c.min_val.n <= v /\ v <= c.max_val.n)
                    ELSE m[i] = NaN

C3_Witness ==
    \E t \in Threads : Returned(t) /\
        \E i \in Units : \E j, l \in 1..Len(req[t].criteria) :
            LET c == req[t].criteria[j]
                e == req[t].criteria[l]
            IN  /\ HasValue(loaded, i, c) /\ loaded.rows[i][c.column] = c.min_val
                /\ HasValue(loaded, i, e) /\ loaded.rows[i][e.column] = e.max_val
                /\ ScoreOf(t, i) = Num(100)

\* C4: classify_feasibility puts every score in exactly one class by inclusive
\* lower bounds: >=100 very_high, >=75 high, >=50 moderate_high, >=25 moderate,
\* >=1 low, lower (0 included) very_low, undefined no_data; so 100 is very_high,
\* 99.99 and 75 are high, 74.99 is moderate_high and 0 is very_low.
C4_Examples ==
    {<<Num(100), "very_high">>, <<Frac(9999, 100), "high">>, <<Num(75), "high">>,
     <<Frac(7499, 100), "moderate_high">>, <<Num(0), "very_low">>, <<NaN, "no_data">>}

C4_ClassBoundaries ==
    clsOut[1] # "" =>
        /\ clsIn.k \in {"nan", "none"} => clsOut[1] = "no_data"
        /\ clsIn.k = "num" =>
             LET n == clsIn.n
                 d == clsIn.d
             IN  /\ clsOut[1] = "very_high" <=> n >= 100 * d
                 /\ clsOut[1] = "high" <=> (75 * d <= n /\ n < 100 * d)
                 /\ clsOut[1] = "moderate_high" <=> (50 * d <= n /\ n < 75 * d)
                 /\ clsOut[1] = "moderate" <=> (25 * d <= n /\ n < 50 * d)
                 /\ clsOut[1] = "low" <=> (d <= n /\ n < 25 * d)
                 /\ clsOut[1] = "very_low" <=> n < d
        /\ \A e \in C4_Examples : clsIn = e[1] => clsOut[1] = e[2]

C4_Witness == clsIn = Frac(9999, 100) /\ clsOut = <<"high", "75-100%">>

\* C5: the histogram of every result holds the 7 bucket keys, each with a
\* non-negative integer count, and the counts sum to the total unit count of
\* the statistics.
C5_Histogram ==
    \A t \in Threads : Returned(t) =>
        LET st == result[t].statistics
            dist == st["distribution"]
        IN  /\ DOMAIN dist =
                 {"100%", "75-100%", "50-75%", "25-50%", "1-25%", "0%", "No Data"}
            /\ \A l \in DOMAIN dist : dist[l] \in Nat
            /\ dist["100%"] + dist["75-100%"] + dist["50-75%"] + dist["25-50%"]
                 + dist["1-25%"] + dist["0%"] + dist["No Data"] = st["total_blocks"]

C5_Witness ==
    \E t \in Threads : Returned(t) /\
        LET st == result[t].statistics
        IN  /\ req[t].district = Text("A")
            /\ Len(loaded.rows) >= 2
            /\ st["total_blocks"] = 1
            /\ st["distribution"]["75-100%"] = 1
            /\ st["distribution"]["No Data"] = 0

\* C6: under every interleaving of concurrent first-time calls, each loader's
\* file read (and join) is executed at most once in the life of the process.
C6_LoadedAtMostOnce == \A l \in Loaders : runs[l] <= 1

\* two threads have each read the block shapefile and each holds its own table
C6_Witness ==
    /\ runs["load_shapefile"] = 2
    /\ \A t \in 1..2 : stack[t] # <<>> /\ stack[t][1].fn = "load_shapefile"
                        /\ stack[t][1].at = "done"
    /\ stack[1][1].val # stack[2][1].val

\* thread t's step starts a call of loader l from a handler
CallsLoader(t, l) == stack[t] = <<>> /\ stack'[t] # <<>> /\ stack'[t][1].fn = l

\* thread t's step enters the body of loader l
EntersBody(t, l) ==
    /\ Len(stack'[t]) > Len(stack[t])
    /\ stack'[t][Len(stack'[t])].fn = l
    /\ stack'[t][Len(stack'[t])].at = "body"

\* thread t's step takes load_gp_shapefile past its load_gp_data() call
\* without entering the body of load_gp_data
PastGpDataCall(t) ==
    /\ stack[t] # <<>> /\ Len(stack'[t]) = Len(stack[t])
    /\ Top(t).fn = "load_gp_shapefile" /\ Top(t).at = "body"
    /\ stack'[t][Len(stack'[t])].at = "merge"

\* C7: once a loader has returned a value (a dataset or the "unavailable"
\* value), no step replaces or empties its cache entry, no call started from
\* then on enters the loader's body, and every such call returns that value.
C7_CachedValueKept ==
    [][\A l \in Loaders : returned[l] # NoValue =>
           /\ cache[l] = returned[l]
           /\ cache'[l] = cache[l]
           /\ returned'[l] = returned[l]
           /\ \A t \in Threads :
                  /\ ~EntersBody(t, l)
                  /\ CallsLoader(t, l) => /\ Len(stack'[t]) = 1
                                          /\ stack'[t][1].at = "done"
                                          /\ stack'[t][1].val = returned[l]
                                          /\ runs'[l] = runs[l]
                  /\ (l = "load_gp_data" /\ PastGpDataCall(t)) =>
                         stack'[t][Len(stack'[t])].got = returned[l]]_vars

\* one body run, two calls answered with its value; and an "unavailable"
\* value answered twice without a read
C7_Witness ==
    \E l \in EntryLoaders :
        /\ \A t \in 1..2 : stack[t] = <<Frame(l, "done", returned[l])>>
        /\ \/ returned[l].kind = "data" /\ runs[l] = 1
           \/ returned[l].kind = "none" /\ runs[l] = 0

\* C8: a scoring call leaves the table it was given as it was (same rows,
\* columns and values, no derived column); the derived columns are on the
\* copy the result is made from.
C8_CachedTableUntouched ==
    /\ heap[Cached] = loaded
    /\ heap[Cached].cols \cap DerivedColumns = {}
    /\ \A t \in Threads : Returned(t) =>
           /\ Len(result[t].geojson) = Len(loaded.rows)
           /\ \A i \in 1..Len(result[t].geojson) :
                  DOMAIN result[t].geojson[i] = loaded.cols \cup DerivedColumns

C8_Witness ==
    \E t \in Threads : Returned(t) /\ Len(loaded.rows) >= 2
        /\ ScoreOf(t, 1).k = "num" /\ heap[Cached] = loaded

\* C9: whatever the interleaving of concurrent scoring requests on the cached
\* table, each returns what it would return run alone, and the cached table
\* is unchanged.
C9_SameAsAlone ==
    /\ heap[Cached] = loaded
    /\ \A t \in Threads : pc[t] = "done" =>
           result[t] = calculate_and_get_geojson(
                           loaded, req[t].criteria, req[t].logic, req[t].district)

C9_Witness ==
    /\ pc[1] = "done" /\ pc[2] = "stats" /\ req[1] # req[2]
    /\ Len(loaded.rows) >= 2
    /\ result[1].status = "ok" /\ ScoreOf(1, 1).k = "num"

\* C10: a criterion whose column is absent from the table is no error and
\* applies to no unit: the scores are those of the list without such
\* criteria, and a list made only of them leaves every score undefined.
AsNull(v) == IF v.k = "nan" THEN None ELSE v

C10_AbsentColumn ==
    \A t \in Threads : pc[t] = "done" =>
        LET cs == req[t].criteria
            present == SelectSeq(cs, LAMBDA c : c.column \in loaded.cols)
            alone == calculate_feasibility(loaded, present, req[t].logic)
        IN  /\ result[t].status = "ok"
            /\ \A i \in Units : ScoreOf(t, i) = AsNull(alone[i])
            /\ present = <<>> => \A i \in Units : Undefined(ScoreOf(t, i))

C10_Witness ==
    \E t \in Threads : Returned(t) /\
        LET cs == req[t].criteria
        IN  /\ Len(cs) = 2
            /\ cs[1].column = "ZZ" /\ cs[2].column = "AD"
            /\ \E i \in Units : ScoreOf(t, i) = Num(100)

\* C11: with an empty criteria list every unit's score is undefined and
\* classified no_data, and the histogram counts every unit of the statistics
\* under "No Data" and 0 under each of the six other labels.
C11_NoCriteria ==
    \A t \in Threads : (pc[t] = "done" /\ req[t].criteria = <<>>) =>
        /\ result[t].status = "ok"
        /\ \A i \in Units :
               /\ Undefined(ScoreOf(t, i))
               /\ result[t].geojson[i]["feasibility_class"] = Text("no_data")
               /\ result[t].geojson[i]["feasibility_label"] = Text("No Data")
        /\ LET st == result[t].statistics
           IN  /\ st["distribution"]["No Data"] = st["total_blocks"]
               /\ \A l \in all_labels \ {"No Data"} : st["distribution"][l] = 0
               /\ ~Truthy(req[t].district) => st["total_blocks"] = Len(loaded.rows)

C11_Witness ==
    \E t \in Threads :
        /\ Returned(t) /\ req[t].criteria = <<>> /\ req[t].district = None
        /\ Len(loaded.rows) = 2
        /\ result[t].statistics["distribution"]["No Data"] = 2

\* the units whose Dist_Name equals the scope
MatchByName(scope) ==
    IF "Dist_Name" \in loaded.cols
    THEN {i \in Units : loaded.rows[i]["Dist_Name"].k = "str"
                        /\ loaded.rows[i]["Dist_Name"] = scope}
    ELSE {}

\* the units whose DISTRICT_I, written as text, equals the scope written as text
MatchById(scope) ==
    IF "DISTRICT_I" \in loaded.cols
    THEN {i \in Units :
            AsStr(loaded.rows[i]["DISTRICT_I"], IsFloatColumn(loaded, "DISTRICT_I"))
                = PyStr(scope)}
    ELSE {}

\* a scope was given and no unit matches it by name or by id
MatchesNoUnit(scope) ==
    Truthy(scope) /\ MatchByName(scope) = {} /\ MatchById(scope) = {}

\* C12: for every unit table and every scope that no unit matches by name or
\* by id, the call returns statistics over zero units and raises no error.
C12_NoMatchNoError ==
    \A t \in Threads : (pc[t] = "done" /\ MatchesNoUnit(req[t].district)) =>
        /\ result[t].status = "ok"
        /\ result[t].statistics["total_blocks"] = 0

\* the scope matches no unit and the table has no district column at all:
\* line 199 raises KeyError('DISTRICT_I')
C12_Witness ==
    \E t \in Threads :
        /\ pc[t] = "done" /\ req[t].district = Text("X")
        /\ Len(loaded.rows) = 2
        /\ loaded.cols \cap {"Dist_Name", "DISTRICT_I"} = {}
        /\ result[t].status = "KeyError"

\* the part of C12 the code does keep: with a district column in the table a
\* scope that matches no unit gives statistics over zero units
C12_ZeroUnitsWithDistrictColumn ==
    \A t \in Threads :
        ( /\ pc[t] = "done" /\ MatchesNoUnit(req[t].district)
          /\ loaded.cols \cap {"Dist_Name", "DISTRICT_I"} # {} ) =>
            /\ result[t].status = "ok"
            /\ result[t].statistics["total_blocks"] = 0
            /\ result[t].statistics["distribution"] = [l \in all_labels |-> 0]

\* C13: whatever the scope, the returned collection has one feature per unit
\* of the input table, in the table's order and with the table's values, each
\* with feasibility, feasibility_class, feasibility_label and
\* feasibility_color added; the scope restricts only the statistics.
C13_AllUnitsOnMap ==
    \A t \in Threads : Returned(t) =>
        /\ Len(result[t].geojson) = Len(loaded.rows)
        /\ \A i \in Units :
               /\ DOMAIN result[t].geojson[i] = loaded.cols \cup DerivedColumns
               /\ \A c \in loaded.cols : result[t].geojson[i][c] = AsNull(loaded.rows[i][c])
        /\ result[t].geojson =
               calculate_and_get_geojson(loaded, req[t].criteria, req[t].logic, None).geojson

C13_Witness ==
    \E t \in Threads :
        /\ Returned(t) /\ req[t].district = Text("A")
        /\ Len(loaded.rows) = 2 /\ Len(result[t].geojson) = 2
        /\ result[t].statistics["total_blocks"] = 1
        /\ ScoreOf(t, 2).k = "num"

\* the units the statistics of a scope are to cover
ScopedUnits(scope) ==
    IF ~Truthy(scope) THEN Units
    ELSE IF MatchByName(scope) # {} THEN MatchByName(scope)
    ELSE MatchById(scope)

\* C14: the statistics cover all units without a scope, the units whose
\* Dist_Name equals the scope when there is one, and only when none matches
\* by name the units whose DISTRICT_I as text equals the scope.
C14_StatisticsScope ==
    \A t \in Threads : Returned(t) =>
        LET st == result[t].statistics
            in_scope == ScopedUnits(req[t].district)
        IN  /\ st["total_blocks"] = Cardinality(in_scope)
            /\ st["blocks_with_data"] =
                   Cardinality({i \in in_scope : ~Undefined(ScoreOf(t, i))})
            /\ \A l \in all_labels :
                   st["distribution"][l] =
                       Cardinality({i \in in_scope :
                                      result[t].geojson[i]["feasibility_label"] = Text(l)})

\* a scope that is no unit's name but is the id of one of two units
C14_Witness ==
    \E t \in Threads :
        /\ Returned(t) /\ req[t].district = NumStr(1)
        /\ Len(loaded.rows) = 2 /\ "Dist_Name" \in loaded.cols
        /\ MatchByName(req[t].district) = {}
        /\ result[t].statistics["total_blocks"] = 1

\* C15: two scoring calls with the same table, criteria, logic and scope
\* return the same scores, classes, labels, colors and statistics, whenever
\* and however often they run.
C15_SameInputsSameResult ==
    \A t, u \in Threads :
        (pc[t] = "done" /\ pc[u] = "done" /\ req[t] = req[u]) => result[t] = result[u]

C15_Witness ==
    /\ pc[1] = "done" /\ pc[2] = "done" /\ req[1] = req[2]
    /\ Len(loaded.rows) = 2
    /\ result[1].status = "ok" /\ ScoreOf(1, 1).k = "num"
    /\ result[2] = result[1]

\* the indicator table load_gp_data hands to the join
GpData == load_gp_data(files.xlsx, files.first_col, files.vgj)

\* load_gp_shapefile returned a table that went through the join of line 372
Joined == built.status = "ok" /\ GpData.status = "ok"

GeometryRows == 1..Len(files.shp.rows)

\* the rows of the joined table that carry geometry row i
RowsOf(i) ==
    {j \in 1..Len(built.table.rows) : built.table.rows[j]["geometry"] = Int64(i)}

\* the indicator table's own columns, and the name each has in the joined table
IndicatorColumns == GpData.table.cols \ {"GP_CODE"}
InJoined(c) == IF c \in (files.shp.cols \ {"VIL_COUNT"}) THEN SuffixY[c] ELSE c

\* geometry row i has a GP code and the indicator table has a row with that code
HasIndicatorRow(i) ==
    /\ Coerce(files.shp.rows[i]["GP_CODE"]).k = "int"
    /\ \E r \in 1..Len(GpData.table.rows) :
           GpData.table.rows[r]["GP_CODE"] = files.shp.rows[i]["GP_CODE"]

\* C16: every geometry row appears in the joined table, and a sub-unit whose
\* GP_CODE has no matching row in the indicator table appears with every
\* indicator attribute missing.
C16_LeftJoin ==
    Joined =>
        \A i \in GeometryRows :
            /\ RowsOf(i) # {}
            /\ ~HasIndicatorRow(i) =>
                   \A j \in RowsOf(i) : \A c \in IndicatorColumns :
                       built.table.rows[j][InJoined(c)] = NA

\* a sub-unit whose GP_CODE is no number is joined to the indicator row of a
\* GP that got no code from Vill_Gp_join.csv, and carries that GP's AD value
C16_Witness ==
    /\ Joined
    /\ \E i \in GeometryRows :
           /\ files.shp.rows[i]["GP_CODE"].k = "str"
           /\ \E j \in RowsOf(i) : /\ "AD" \in built.table.cols
                                   /\ built.table.rows[j]["AD"] = Int64(32)
                                   /\ built.table.rows[j]["GP_CODE"] = NA

\* the part of C16 the code does keep: every geometry row appears, and one
\* whose GP_CODE is a number no indicator row has carries no indicator value
C16_LeftJoinOnCodes ==
    Joined =>
        \A i \in GeometryRows :
            /\ RowsOf(i) # {}
            /\ ( /\ Coerce(files.shp.rows[i]["GP_CODE"]).k = "int"
                 /\ ~HasIndicatorRow(i) ) =>
                   /\ Cardinality(RowsOf(i)) = 1
                   /\ \A j \in RowsOf(i) : \A c \in IndicatorColumns :
                          built.table.rows[j][InJoined(c)] = NA

\* C17: with its geometry file missing load_shapefile fails with
\* FileNotFoundError and caches nothing; with its geometry file missing
\* load_gp_shapefile raises nothing and returns None, and get_gp_geojson,
\* get_gp_by_id and get_gp_locations then answer with an empty collection,
\* None and an empty list.
C17_MissingSources ==
    \A t \in Threads : stack[t] # <<>> =>
        LET f == stack[t][1]
        IN  /\ (f.fn = "load_shapefile" /\ ~disk["4DSS_VAR_2.0.shp"]) =>
                   /\ f.at \in {"body", "FileNotFoundError"}
                   /\ f.at = "FileNotFoundError" <=> pc[t] = "failed"
                   /\ cache["load_shapefile"] = NoValue
            /\ (f.fn = "load_gp_shapefile" /\ ~disk["grampanchayat.shp"]) =>
                   /\ f.at \in {"body", "done"}
                   /\ pc[t] # "failed"
                   /\ f.at = "done" =>
                          /\ f.val = NoneValue
                          /\ f.via = "get_gp_geojson" =>
                                 f.answer = "FeatureCollection without features"
                          /\ f.via = "get_gp_by_id" => f.answer = "None"
                          /\ f.via = "get_gp_locations" => f.answer = "[]"

C17_Witness ==
    /\ ~disk["4DSS_VAR_2.0.shp"] /\ ~disk["grampanchayat.shp"]
    /\ \E t, u \in Threads :
           /\ pc[t] = "failed" /\ stack[t][1].fn = "load_shapefile"
           /\ stack[t][1].at = "FileNotFoundError"
           /\ pc[u] = "done" /\ stack[u][1].via = "get_gp_by_id"
           /\ stack[u][1].val = NoneValue /\ stack[u][1].answer = "None"
           /\ cache["load_gp_shapefile"] = NoneValue

\* the column names the geometry file and the indicator table share
SharedColumns == (files.shp.cols \cap GpData.table.cols) \ {"GP_CODE"}

\* row j of the joined table carries in column c the value of an indicator
\* row with its GP code
IndicatorValue(j, c) ==
    \E r \in 1..Len(GpData.table.rows) :
        /\ GpData.table.rows[r]["GP_CODE"] = built.table.rows[j]["GP_CODE"]
        /\ GpData.table.rows[r][c] = built.table.rows[j][c]

\* C18: of every column name other than GP_CODE found in both the geometry
\* table and the indicator table, the joined table has one column, under that
\* name, with the indicator table's value; no suffixed column remains.
C18_IndicatorValueWins ==
    Joined =>
        \A c \in SharedColumns :
            /\ c \in built.table.cols
            /\ SuffixX[c] \notin built.table.cols
            /\ SuffixY[c] \notin built.table.cols
            /\ \A i \in GeometryRows : HasIndicatorRow(i) =>
                   \A j \in RowsOf(i) : IndicatorValue(j, c)

\* both tables have AD: the joined table has AD_x with the geometry file's 5
\* and AD_y with the workbook's 30, and no AD
C18_Witness ==
    /\ Joined
    /\ "AD" \in SharedColumns
    /\ "AD" \notin built.table.cols
    /\ \E j \in 1..Len(built.table.rows) :
           /\ built.table.rows[j]["AD_x"] = Int64(5)
           /\ built.table.rows[j]["AD_y"] = Int64(30)

\* the part of C18 the code does keep: VIL_COUNT of both tables is in the
\* joined table once, with the indicator table's value
C18_VilCountFromIndicators ==
    (Joined /\ "VIL_COUNT" \in SharedColumns) =>
        /\ "VIL_COUNT" \in built.table.cols
        /\ "VIL_COUNT_x" \notin built.table.cols
        /\ "VIL_COUNT_y" \notin built.table.cols
        /\ \A i \in GeometryRows : HasIndicatorRow(i) =>
               \A j \in RowsOf(i) : IndicatorValue(j, "VIL_COUNT")

\* such a state: both tables have VIL_COUNT and the joined row carries the 7
\* of the workbook's BW, not the geometry file's 5
C18_VilCountJoined ==
    /\ Joined /\ "VIL_COUNT" \in SharedColumns
    /\ \E i \in GeometryRows : /\ HasIndicatorRow(i)
                               /\ \E j \in RowsOf(i) :
                                      built.table.rows[j]["VIL_COUNT"] = Int64(7)

\* the rows of Block_GPs.xlsx, when the file has its two columns
MappingEntries ==
    IF files.blocks.exists /\ {"GP NAME", "BLOCK NAME"} \subseteq files.blocks.cols
    THEN 1..Len(files.blocks.rows)
    ELSE {}

\* the mapping rows whose GP name is that of x, trimmed and whatever the case
EntriesFor(x) ==
    {r \in MappingEntries :
        /\ x.k = "str"
        /\ files.blocks.rows[r]["GP NAME"].k = "str"
        /\ Upper(Strip(files.blocks.rows[r]["GP NAME"].s)) = Upper(Strip(x.s))}

\* those of them that name a block
BlockEntriesFor(x) ==
    {r \in EntriesFor(x) : files.blocks.rows[r]["BLOCK NAME"].k = "str"}

Last(S) == CHOOSE r \in S : \A q \in S : q <= r

\* the table came out of load_gp_shapefile
Built == built.status = "ok"

SubUnits == 1..Len(built.table.rows)

Configured == built.status = "ok"

\* the definition rows of an intervention that carry a variable code
DefinitionRows(name) ==
    SelectSeq(files.csv.rows,
              LAMBDA row : /\ row["Cluster"] = Str(name)
                           /\ "I_variable" \in DOMAIN row
                           /\ row["I_variable"].k = "str")

\* the row has a value in column c, and that value as a number
HasCell(row, c) == c \in DOMAIN row /\ row[c].k \in {"num", "str"}
CellNumber(row, c) == Num(row[c].n)

\* the numbers found in column field of the unit table
Observed(field) ==
    IF field \notin loaded.cols THEN {}
    ELSE {Num(loaded.rows[i][field].n) :
            i \in {j \in 1..Len(loaded.rows) :
                      \/ loaded.rows[j][field].k = "num"
                      \/ loaded.rows[j][field].k = "str" /\ loaded.rows[j][field].d = 1}}

IsMinimum(v, S) == v \in S /\ \A o \in S : Leq(v, o)
IsMaximum(v, S) == v \in S /\ \A o \in S : Leq(o, v)

\* configuration i of intervention name goes with definition row i
ConfigsWithRows(P(_, _)) ==
    \A name \in DOMAIN built.interventions :
        /\ Len(built.interventions[name]) = Len(DefinitionRows(name))
        /\ \A i \in 1..Len(built.interventions[name]) :
               P(built.interventions[name][i], DefinitionRows(name)[i])

\* C20 as stated: range_min (range_max) is the row's when the row has one,
\* and otherwise the smallest (largest) number found in the variable's column
\* of the unit table.
C20_AsStated ==
    Configured =>
        ConfigsWithRows(LAMBDA config, row :
            /\ IF HasCell(row, "range_min")
               THEN config.range_min = CellNumber(row, "range_min")
               ELSE IsMinimum(config.range_min, Observed(config.field))
            /\ IF HasCell(row, "range_max")
               THEN config.range_max = CellNumber(row, "range_max")
               ELSE IsMaximum(config.range_max, Observed(config.field)))

\* C20: range_min (range_max) is the row's when the row has one; otherwise it
\* is the smallest (largest) number found in the variable's column of the
\* unit table, or 0 (100) when the table has no such column or the column
\* holds no number.
C20_RangeResolution ==
    Configured =>
        ConfigsWithRows(LAMBDA config, row :
            /\ IF HasCell(row, "range_min")
               THEN config.range_min = CellNumber(row, "range_min")
               ELSE IF Observed(config.field) = {}
                    THEN config.range_min = Num(0)
                    ELSE IsMinimum(config.range_min, Observed(config.field))
            /\ IF HasCell(row, "range_max")
               THEN config.range_max = CellNumber(row, "range_max")
               ELSE IF Observed(config.field) = {}
                    THEN config.range_max = Num(100)
                    ELSE IsMaximum(config.range_max, Observed(config.field)))

\* intervention "a" with AD from its row (10..40, the table holding 20 and
\* 30), BF from the table (60..60) and ZZ, no column of the table, 0..50
C20_Witness ==
    /\ Configured
    /\ Observed("AD") = {Num(20), Num(30)}
    /\ <<"a">> \in DOMAIN built.interventions
    /\ Len(built.interventions[<<"a">>]) = 3
    /\ LET v == built.interventions[<<"a">>]
       IN  /\ v[1].field = "AD" /\ v[1].range_min = Num(10) /\ v[1].range_max = Num(40)
           /\ v[2].field = "BF" /\ v[2].range_min = Num(60) /\ v[2].range_max = Num(60)
           /\ v[3].field = "ZZ" /\ v[3].range_min = Num(0) /\ v[3].range_max = Num(50)

\* a row without range_min on a column of two numbers: the smaller one
C20_ObservedMinimum ==
    /\ Configured
    /\ Observed("AD") = {Num(20), Num(30)}
    /\ <<"b">> \in DOMAIN built.interventions
    /\ built.interventions[<<"b">>] # <<>>
    /\ built.interventions[<<"b">>][1].range_min = Num(20)
    /\ built.interventions[<<"b">>][1].range_max = Num(30)

\* C21: a request scored with logic "OR" gets the result (features with
\* scores, classes and colours, statistics, histogram) the same criteria and
\* district get with logic "AND".
C21_LogicIgnored ==
    (pc[1] = "done" /\ pc[2] = "done") =>
        /\ req[1].logic = "AND" /\ req[2].logic = "OR"
        /\ req[2].criteria = req[1].criteria
        /\ result[2] = result[1]

\* two criteria of different weight, one matched and one not: 25 both times
C21_Witness ==
    /\ pc[1] = "done" /\ pc[2] = "done"
    /\ req[2].logic = "OR"
    /\ Len(req[2].criteria) = 2
    /\ result[2].status = "ok"
    /\ \E i \in 1..Len(loaded.rows) : ScoreOf(2, i) = Num(25)

\* the bounds a criterion gives, None when it gives none
MinBound(c) ==
    IF "min_val" \in DOMAIN c THEN c.min_val
    ELSE IF "range_min" \in DOMAIN c THEN c.range_min ELSE None
MaxBound(c) ==
    IF "max_val" \in DOMAIN c THEN c.max_val
    ELSE IF "range_max" \in DOMAIN c THEN c.range_max ELSE None
Unbounded(b) == b.k \in {"none", "nan"}
NameOf(c) == IF "column" \in DOMAIN c THEN c.column ELSE c.field
WeightOf(c) == IF "weight" \in DOMAIN c THEN c.weight ELSE 1

\* unit i has a number in the criterion's column
Numeric(i, c) ==
    /\ NameOf(c) \in loaded.cols
    /\ LET v == loaded.rows[i][NameOf(c)]
       IN  v.k = "num" \/ (v.k = "str" /\ v.d = 1)

\* ... and the number is not below a given lower bound nor above a given upper one
Accepts(i, c) ==
    /\ Numeric(i, c)
    /\ LET v == loaded.rows[i][NameOf(c)]
       IN  /\ Unbounded(MinBound(c)) \/ MinBound(c).n * v.d <= v.n * MinBound(c).d
           /\ Unbounded(MaxBound(c)) \/ v.n * MaxBound(c).d <= MaxBound(c).n * v.d

RECURSIVE SumOf(_)
SumOf(ws) == IF ws = <<>> THEN 0 ELSE Head(ws) + SumOf(Tail(ws))

\* C22: a null or absent min bound is minus infinity and a null or absent max
\* bound plus infinity: the request is served, every criterion counts with its
\* weight for the units with a number in its column, a missing bound rejecting
\* no unit; a criterion without bounds matches every such unit.
C22_OpenBounds ==
    pc[1] = "done" =>
        /\ result[1].status = "ok"
        /\ \A i \in Units :
               LET cs == req[1].criteria
                   applicable == SumOf([j \in 1..Len(cs) |->
                                    IF Numeric(i, cs[j]) THEN WeightOf(cs[j]) ELSE 0])
                   matched == SumOf([j \in 1..Len(cs) |->
                                    IF Accepts(i, cs[j]) THEN WeightOf(cs[j]) ELSE 0])
               IN  /\ applicable > 0 => ScoreOf(1, i) = Frac(100 * matched, applicable)
                   /\ applicable = 0 => Undefined(ScoreOf(1, i))
                   /\ ( /\ Len(cs) = 1
                        /\ Unbounded(MinBound(cs[1])) /\ Unbounded(MaxBound(cs[1]))
                        /\ Numeric(i, cs[1]) ) => ScoreOf(1, i) = Num(100)

\* AD = 20 under "at least 20, no upper bound" (weight 3) and "at most 10, no
\* lower bound" (weight 1): 75
C22_Witness ==
    /\ pc[1] = "done" /\ result[1].status = "ok"
    /\ Len(req[1].criteria) = 2
    /\ "max_val" \notin DOMAIN req[1].criteria[1]
    /\ "min_val" \notin DOMAIN req[1].criteria[2]
    /\ \E i \in Units : /\ loaded.rows[i]["AD"] = Num(20)
                        /\ ScoreOf(1, i) = Num(75)

\* the catalog get_intervention_config gives for the files of the state
Catalog == get_intervention_config(files.csv, loaded)

\* the request names an intervention of the catalog and posts no criteria
UsesDefaults(r) ==
    /\ r.filters = <<>>
    /\ r.intervention # <<>>
    /\ Catalog.status = "ok"
    /\ r.intervention \in DOMAIN Catalog.interventions

\* C23: a request that names an intervention and posts no criteria is scored
\* with one criterion per Variable Config of the intervention (column = field,
\* min_val = range_min, max_val = range_max, weight = weight); without
\* configured variables every score is undefined and no error is raised;
\* posted criteria are the criteria scored with.
C23_DefaultCriteria ==
    pc[1] = "done" =>
        LET r == req[1]
        IN  /\ r.filters # <<>> => r.criteria = r.filters
            /\ UsesDefaults(r) =>
                   LET vs == Catalog.interventions[r.intervention]
                   IN  /\ Len(r.criteria) = Len(vs)
                       /\ \A i \in 1..Len(vs) :
                              /\ r.criteria[i].column = vs[i].field
                              /\ r.criteria[i].min_val = vs[i].range_min
                              /\ r.criteria[i].max_val = vs[i].range_max
                              /\ Num(r.criteria[i].weight) = vs[i].weight
                       /\ result[1].status = "ok"
                       /\ vs = <<>> => \A u \in Units : Undefined(ScoreOf(1, u))
            /\ result[1].status = "ok" =>
                   result[1] = calculate_and_get_geojson(loaded, r.criteria, r.logic, r.district)

\* intervention "a" with AD in 10..40 (weight 2), BF in 60..60 from the table
\* and ZZ, no column: the unit with AD = 20 and BF = 60 scores 100
C23_Witness ==
    /\ pc[1] = "done" /\ UsesDefaults(req[1])
    /\ Len(req[1].criteria) = 3
    /\ req[1].criteria[1] = Criterion("AD", Num(10), Num(40), 2)
    /\ \E u \in Units : ScoreOf(1, u) = Num(100)

\* an intervention of the catalog without variables: scores undefined, no error
C23_NoVariables ==
    /\ pc[1] = "done" /\ UsesDefaults(req[1])
    /\ req[1].criteria = <<>>
    /\ result[1].status = "ok"
    /\ Units # {}
    /\ \A u \in Units : Undefined(ScoreOf(1, u))

\* the sub-units of the cached collection that are in the block of the request
InBlock(b) == {i \in Units : loaded.rows[i]["Block_Name"] = b}

\* the request gives a block
BlockGiven(r) == r.block.k = "str" /\ r.block.s # ""

\* C24: the feature collection of a GP scoring request holds every sub-unit
\* of the cached collection, whatever block the request gives; the block
\* narrows the statistics only.
C24_AllSubUnitsReturned ==
    (pc[1] = "done" /\ result[1].status = "ok") =>
        /\ Len(result[1].geojson) = Len(loaded.rows)
        /\ \A i \in Units : result[1].geojson[i]["GP_CODE"] = loaded.rows[i]["GP_CODE"]
        /\ BlockGiven(req[1]) =>
               result[1].statistics.total_blocks = Cardinality(InBlock(req[1].block))

\* block "A" asked for a collection with a GP in "A" and a GP in "B": one
\* feature comes back
C24_Witness ==
    /\ pc[1] = "done" /\ result[1].status = "ok"
    /\ req[1].block = Text("A")
    /\ Len(loaded.rows) = 2
    /\ loaded.rows[1]["Block_Name"] = Text("B")
    /\ loaded.rows[2]["Block_Name"] = Text("A")
    /\ Len(result[1].geojson) = 1
    /\ result[1].geojson[1]["GP_CODE"] = Num(2)

\* what the code does: with a block given, the features and the statistics
\* are both those of the block's sub-units, in order; without, of all
C24_FeaturesOfTheBlock ==
    (pc[1] = "done" /\ result[1].status = "ok") =>
        LET kept == IF BlockGiven(req[1]) THEN InBlock(req[1].block) ELSE Units
        IN  /\ Len(result[1].geojson) = Cardinality(kept)
            /\ {result[1].geojson[j]["GP_CODE"] : j \in 1..Len(result[1].geojson)}
                   = {loaded.rows[i]["GP_CODE"] : i \in kept}
            /\ result[1].statistics.total_blocks = Cardinality(kept)

\* load_gp_shapefile got a table from load_gp_data and went on to the merge
ReadIndicators ==
    /\ built # NotBuilt
    /\ files.shp.exists
    /\ GpData.status = "ok"
    /\ "GP_CODE" \in GpData.table.cols

\* C25: the indicator table in load_gp_data's cache slot is, after
\* load_gp_shapefile has read it, what load_gp_data built: same columns, same
\* values, same types.
C25_CachedTableKept ==
    ReadIndicators =>
        /\ built.gp_data.table.cols = GpData.table.cols
        /\ built.gp_data.table.rows = GpData.table.rows
        /\ built.gp_data.gp_code \in {"int64", "float64"}

\* the cached table had a float64 GP_CODE (a GP without code) and now has Int64
C25_Witness ==
    /\ ReadIndicators
    /\ \E i \in 1..Len(GpData.table.rows) : GpData.table.rows[i]["GP_CODE"] = NA
    /\ built.gp_data.gp_code = "Int64"

\* what the code does keep: columns and values; the type of GP_CODE becomes Int64
C25_ValuesKept ==
    ReadIndicators =>
        /\ built.gp_data.table.cols = GpData.table.cols
        /\ built.gp_data.table.rows = GpData.table.rows
        /\ built.gp_data.gp_code = "Int64"

\* the indicator rows whose GP_CODE is that of geometry row i (the code as
\* line 362 reads it; two missing codes are the same code to the merge)
IndicatorRowsFor(i) ==
    {r \in 1..Len(GpData.table.rows) :
        GpData.table.rows[r]["GP_CODE"] = Coerce(files.shp.rows[i]["GP_CODE"])}

\* C26: the joined collection has exactly one row per geometry row, whatever
\* the indicator table: also with a GP_CODE repeated in it or missing on
\* several of its rows.
C26_OneRowPerGeometryRow ==
    Joined =>
        /\ Len(built.table.rows) = Len(files.shp.rows)
        /\ \A i \in GeometryRows : Cardinality(RowsOf(i)) = 1

\* two workbook names resolve to code 1: the geometry row with code 1 is
\* there twice, once per indicator row
C26_Witness ==
    /\ Joined
    /\ \E i \in GeometryRows :
           /\ files.shp.rows[i]["GP_CODE"] = Int64(1)
           /\ Cardinality(IndicatorRowsFor(i)) = 2
           /\ Cardinality(RowsOf(i)) = 2
           /\ \E j, k \in RowsOf(i) : built.table.rows[j]["AD"] # built.table.rows[k]["AD"]

\* what the code does: a geometry row is there once per indicator row with
\* its code, and once when there is none
C26_OneRowPerMatch ==
    Joined =>
        \A i \in GeometryRows :
            Cardinality(RowsOf(i)) =
                IF IndicatorRowsFor(i) = {} THEN 1 ELSE Cardinality(IndicatorRowsFor(i))

\* get_interventions returned the catalog
Listed == pc[2] = "done" /\ result[2].status = "ok"

\* the definition rows whose cluster label, blanks around it aside, is the
\* name, and that carry a variable code
RowsNaming(name) ==
    SelectSeq(files.csv.rows,
              LAMBDA row : /\ row["Cluster"].k = "str"
                           /\ Strip(row["Cluster"].s) = name
                           /\ "I_variable" \in DOMAIN row
                           /\ row["I_variable"].k = "str")

\* C27: every intervention of the catalog has an entry in the result of
\* get_intervention_config, holding one Variable Config per definition row
\* that names the intervention and has a variable code, in row order; blanks
\* around a cluster label do not matter.
C27_OneConfigPerRow ==
    (Listed /\ Configured) =>
        \A name \in DOMAIN result[2].interventions :
            /\ name \in DOMAIN built.interventions
            /\ Len(built.interventions[name]) = Len(RowsNaming(name))
            /\ \A i \in 1..Len(built.interventions[name]) :
                   i <= Len(RowsNaming(name)) =>
                       built.interventions[name][i].field = RowsNaming(name)[i]["I_variable"].s

\* labels " b" and "b ": intervention "b" is in the catalog and has two
\* definition rows, and its entry is empty
C27_Witness ==
    /\ Listed /\ Configured
    /\ <<"b">> \in DOMAIN result[2].interventions
    /\ Len(RowsNaming(<<"b">>)) = 2
    /\ built.interventions[<<"b">>] = <<>>

\* what the code does: the entries are those of the catalog, and an entry
\* holds the rows labelled with the name itself, without blanks
C27_ExactLabelsOnly ==
    (Listed /\ Configured) =>
        /\ DOMAIN built.interventions = DOMAIN result[2].interventions
        /\ \A name \in DOMAIN built.interventions :
               /\ Len(built.interventions[name]) = Len(DefinitionRows(name))
               /\ \A i \in 1..Len(built.interventions[name]) :
                      built.interventions[name][i].field = DefinitionRows(name)[i]["I_variable"].s

\* the number of scoped units the histogram puts under the labels
Bucket(t, labels) ==
    LET d == result[t].statistics["distribution"]
        pick == {l \in labels : d[l] > 0}
        RECURSIVE Sum(_)
        Sum(ls) == IF ls = {} THEN 0
                   ELSE LET l == CHOOSE x \in ls : TRUE IN d[l] + Sum(ls \ {l})
    IN  Sum(pick)

\* C28: in every result the statistics and the histogram agree over the
\* scoped units: with data + no data = total; no data = the 'No Data' bucket;
\* high_feasibility = '100%' + '75-100%'; low_feasibility = '1-25%' + '0%'.
C28_StatisticsMatchHistogram ==
    \A t \in Threads : Returned(t) =>
        LET st == result[t].statistics
        IN  /\ st["blocks_with_data"] + st["blocks_no_data"] = st["total_blocks"]
            /\ st["blocks_no_data"] = Bucket(t, {"No Data"})
            /\ st["high_feasibility"] = Bucket(t, {"100%", "75-100%"})
            /\ st["low_feasibility"] = Bucket(t, {"1-25%", "0%"})
            /\ st["total_blocks"] = Bucket(t, all_labels)

\* a scope of one unit out of two, whose score is exactly 75
C28_Witness ==
    \E t \in Threads :
        /\ Returned(t) /\ Truthy(req[t].district)
        /\ Len(result[t].geojson) = 2
        /\ result[t].statistics["total_blocks"] = 1
        /\ \E i \in ScopedUnits(req[t].district) : ScoreOf(t, i) = Num(75)
        /\ result[t].statistics["high_feasibility"] = 1

\* a score of exactly 25 in the scope: neither low nor in the two low buckets
C28_AtTwentyFive ==
    \E t \in Threads :
        /\ Returned(t)
        /\ \E i \in ScopedUnits(req[t].district) : ScoreOf(t, i) = Num(25)
        /\ result[t].statistics["low_feasibility"] = 0
        /\ result[t].statistics["distribution"]["25-50%"] >= 1

\* the rows of the threshold table whose interval holds the score
RowsHolding(s) ==
    {r \in 1..Len(FEASIBILITY_THRESHOLDS) :
        /\ Leq(FEASIBILITY_THRESHOLDS[r].min, s)
        /\ Leq(s, FEASIBILITY_THRESHOLDS[r].max)}

\* a number between 0 and 100 was classified
ScoreClassified ==
    /\ clsOut[1] # ""
    /\ clsIn.k = "num" /\ Leq(Num(0), clsIn) /\ Leq(clsIn, Num(100))

\* C29: for every score between 0 and 100 written with at most two decimals,
\* classify_feasibility returns the key and the label of the one row of
\* FEASIBILITY_THRESHOLDS whose interval holds the score, and the key has an
\* entry in FEASIBILITY_COLORS.
C29_CascadeMatchesTable ==
    ScoreClassified =>
        /\ Cardinality(RowsHolding(clsIn)) = 1
        /\ \A r \in RowsHolding(clsIn) :
               clsOut = <<FEASIBILITY_THRESHOLDS[r].key, FEASIBILITY_THRESHOLDS[r].label>>
        /\ clsOut[1] \in DOMAIN FEASIBILITY_COLORS

\* 99.99, the upper end of the second row, classified as that row says
C29_Witness ==
    /\ ScoreClassified
    /\ clsIn = Frac(9999, 100)
    /\ RowsHolding(clsIn) = {2}
    /\ clsOut = <<"high", "75-100%">>

\* the value is a table built by a run of the body of loader l
FromLoad(l, v) == v.kind = "data" /\ v.by \in 1..runs[l]

\* thread t's step ends a call of loader l with FileNotFoundError
FailsMissing(t, l) ==
    /\ stack[t] # <<>> /\ stack[t][1].fn = l /\ pc[t] = "idle"
    /\ pc'[t] = "failed" /\ stack'[t][1].at = "FileNotFoundError"

\* thread t's step is a step of the body of its call of loader l
BodyStep(t, l) ==
    /\ stack[t] # <<>> /\ Len(stack[t]) = 1 /\ stack[t][1].fn = l
    /\ stack[t][1].at = "body" /\ stack'[t] # stack[t]

\* C30: an error is never stored in the cache.  When load_shapefile or
\* load_metadata fails because its file is missing the slot stays empty; a
\* call made while the slot is empty runs the body again, which raises again
\* while the file is missing and, once the file is there, ends with the slot
\* filled; the slot and every value a call returns hold a table built by a
\* run of the body that read the file.
C30_ErrorNotCached ==
    /\ [](\A l \in RetryLoaders :
            /\ cache[l] # NoValue => FromLoad(l, cache[l])
            /\ \A t \in Threads :
                   (stack[t] # <<>> /\ stack[t][1].fn = l) =>
                       /\ stack[t][1].at = "done" =>
                              /\ FromLoad(l, stack[t][1].val)
                              /\ cache[l] # NoValue
                       /\ pc[t] = "failed" => stack[t][1].at = "FileNotFoundError")
    /\ [][\A l \in RetryLoaders : \A t \in Threads :
            /\ FailsMissing(t, l) =>
                   /\ ~disk[BackingFile[l]]
                   /\ cache[l] = NoValue /\ cache'[l] = NoValue
                   /\ runs'[l] = runs[l]
            /\ (CallsLoader(t, l) /\ cache[l] = NoValue) => EntersBody(t, l)
            /\ (BodyStep(t, l) /\ ~disk'[BackingFile[l]]) => FailsMissing(t, l)
            /\ (BodyStep(t, l) /\ disk'[BackingFile[l]]) =>
                   /\ runs'[l] = runs[l] + 1
                   /\ pc'[t] # "failed"
                   /\ stack'[t][1].val = Data(runs'[l], FALSE)
                   /\ Len(stack'[t]) = 1 /\ stack'[t][1].at = "done" =>
                          cache'[l] # NoValue]_vars

\* a call of load_metadata failed on the missing file, the thread went on to
\* the next request, and after the file had been put in place that request's
\* call ran the body and filled the slot; the other thread's earlier failure
\* is still standing
C30_Witness ==
    \E l \in RetryLoaders : \E t, u \in Threads :
        /\ t # u
        /\ disk[BackingFile[l]]
        /\ pc[u] = "failed" /\ stack[u][1].fn = l
        /\ stack[u][1].at = "FileNotFoundError"
        /\ pc[t] = "done" /\ stack[t][1].fn = l
        /\ runs[l] = 1
        /\ cache[l] = Data(1, FALSE) /\ stack[t][1].val = cache[l]

====
